---- MODULE Spec2Model ----
(***************************************************************************)
(* A model of the SPIR-V reflection engine of spirq (src/src/reflect.rs):  *)
(* the tables of ReflectIntermediate, the handlers that ingest the         *)
(* definition and function-body instructions, and the projection of the   *)
(* tables into entry-point records.                                        *)
(***************************************************************************)
EXTENDS Integers, Sequences, FiniteSets, TLC

VARIABLES
    cfg,               \* ReflectConfig: ref_all_rscs, combine_img_samplers, spec_values
    itm,               \* ReflectIntermediate: the tables
    phase,             \* position of reflect() in its sequence of phases
    err,               \* "OK", or the Error that ended the reflection
    entry_points,      \* the Vec<EntryPoint> reflect() returns
    access_chain_map,  \* local of populate_access: result id -> base id
    func_id,           \* local of populate_access: the open function frame
    ingested,          \* the definition instructions populate_defs has read
    body_log,          \* the instructions populate_access has acted on,
                       \* each with the function frame it was met in
    fuse_vars,         \* argument of combine_img_samplers
    fuse_out,          \* its result
    fuse_out2,         \* its result when applied to fuse_out
    hasher,            \* the iteration order the hasher of the build gives
    rerun,             \* the Vec<EntryPoint> of a second reflect() of the module
    file,              \* the file a loader is given the path of
    binary,            \* the Option a loader returns for it
    stream,            \* the instructions reflect() has read, in stream order
    inspected          \* the instructions the inspector was called with, in
                       \* the order of the calls

vars == <<cfg, itm, phase, err, entry_points, access_chain_map, func_id,
          ingested, body_log, fuse_vars, fuse_out, fuse_out2,
          hasher, rerun, file, binary, stream, inspected>>

\* The variables that only the second reflection, the loaders and the
\* reading of a whole stream change.
side == <<hasher, rerun, file, binary, stream, inspected>>

(***************************************************************************)
(* Bounds of the model.                                                    *)
(***************************************************************************)
MaxFuseLen == 3

(***************************************************************************)
(* Helpers: options, finite maps, sequences.                               *)
(***************************************************************************)
None == [some |-> FALSE]
Some(x) == [some |-> TRUE, val |-> x]

EmptyMap == << >>
MapPut(m, k, v) == [x \in DOMAIN m \cup {k} |-> IF x = k THEN v ELSE m[x]]

Range(s) == {s[i] : i \in DOMAIN s}
\* The unordered contents of a list: each element with its number of copies.
SeqToBag(s) == [v \in Range(s) |-> Cardinality({i \in DOMAIN s : s[i] = v})]

RECURSIVE Flatten(_)
Flatten(ss) == IF ss = << >> THEN << >> ELSE Head(ss) \o Flatten(Tail(ss))

RECURSIVE SeqsUpTo(_, _)
SeqsUpTo(S, n) ==
    IF n = 0 THEN {<< >>}
    ELSE LET shorter == SeqsUpTo(S, n - 1)
         IN  shorter \cup {Append(s, x) : s \in {t \in shorter : Len(t) = n - 1}, x \in S}

(***************************************************************************)
(* 32-bit words.  A u32 is kept as <<high half, low half>>, each half in   *)
(* 0..65535, so that the arithmetic of the constant folder wraps at 2^32.  *)
(***************************************************************************)
Half == 256 * 256
U32(n) == <<n \div Half, n % Half>>

(***************************************************************************)
(* The type model (Type of crate::ty, as reflect.rs builds and reads it).  *)
(***************************************************************************)
VoidTy == [kind |-> "Void"]
ScalarTy(scalar, nbyte) == [kind |-> "Scalar", scalar |-> scalar, nbyte |-> nbyte]
ImageTy(scalar_ty, unit_fmt, arng) ==
    [kind |-> "Image", scalar_ty |-> scalar_ty, unit_fmt |-> unit_fmt, arng |-> arng]
SamplerTy == [kind |-> "Sampler"]
SampledImageTy(img_ty) == [kind |-> "SampledImage", img_ty |-> img_ty]
SubpassDataTy(scalar_ty, arng) ==
    [kind |-> "SubpassData", scalar_ty |-> scalar_ty, arng |-> arng]
AccelStructTy == [kind |-> "AccelStruct"]
StructTy(name, members) == [kind |-> "Struct", name |-> name, members |-> members]
ArrayTy(proto_ty, nrepeat, stride) ==
    [kind |-> "Array", proto_ty |-> proto_ty, nrepeat |-> nrepeat, stride |-> stride]

(***************************************************************************)
(* Variables (enum Variable) and their accessors.                          *)
(***************************************************************************)
DescriptorBinding(desc_set, bind_point) == <<desc_set, bind_point>>
InterfaceLocation(loc, comp) == <<loc, comp>>

InputVar(name, location, ty) ==
    [var |-> "Input", name |-> name, location |-> location, ty |-> ty]
OutputVar(name, location, ty) ==
    [var |-> "Output", name |-> name, location |-> location, ty |-> ty]
DescriptorVar(name, desc_bind, desc_ty, ty, nbind) ==
    [var |-> "Descriptor", name |-> name, desc_bind |-> desc_bind,
     desc_ty |-> desc_ty, ty |-> ty, nbind |-> nbind]
PushConstantVar(name, ty) == [var |-> "PushConstant", name |-> name, ty |-> ty]
SpecConstantVar(name, spec_id, ty) ==
    [var |-> "SpecConstant", name |-> name, spec_id |-> spec_id, ty |-> ty]

\* DescriptorType: the variants without payload, with an access, with an index.
DescTy(d) == [d |-> d]
DescTyAccess(d, access) == [d |-> d, access |-> access]
InputAttachment(idx) == [d |-> "InputAttachment", idx |-> idx]

locator(v) ==
    CASE v.var = "Input" -> [loc |-> "Input", at |-> v.location]
      [] v.var = "Output" -> [loc |-> "Output", at |-> v.location]
      [] v.var = "Descriptor" -> [loc |-> "Descriptor", at |-> v.desc_bind]
      [] v.var = "PushConstant" -> [loc |-> "PushConstant"]
      [] v.var = "SpecConstant" -> [loc |-> "SpecConstant", at |-> v.spec_id]

nbind(v) == IF v.var = "Descriptor" THEN Some(v.nbind) ELSE None

(***************************************************************************)
(* combine_img_samplers: merge SampledImage and Sampler descriptors bound  *)
(* to a same binding point with a same number of bindings.                 *)
(***************************************************************************)
IsSamplerDesc(v) == v.var = "Descriptor" /\ v.desc_ty = DescTy("Sampler")
IsSampledImageDesc(v) == v.var = "Descriptor" /\ v.desc_ty = DescTy("SampledImage")

\* succ of the filter_map closure: the image goes with this sampler.
CombinesWith(sampler_var, img_var) ==
    /\ locator(img_var) = [loc |-> "Descriptor", at |-> sampler_var.desc_bind]
    /\ nbind(img_var) = Some(sampler_var.nbind)

Unreachable == [var |-> "unreachable!()"]

CombinedImgSamplerMutNoWrap(sampler_var, img_var) ==
    DescriptorVar(img_var.name, sampler_var.desc_bind, DescTy("CombinedImageSampler"),
                  img_var.ty, sampler_var.nbind)

CombinedImgSampler(sampler_var, img_var) ==
    IF img_var.ty.kind = "Image"
    THEN DescriptorVar(img_var.name, sampler_var.desc_bind,
                       DescTy("CombinedImageSampler"),
                       SampledImageTy(img_var.ty), sampler_var.nbind)
    ELSE Unreachable

RECURSIVE CombineLoopMutKeepAll(_, _, _)
CombineLoopMutKeepAll(samplers, imgs, out_vars) ==
    IF samplers = << >> THEN out_vars \o imgs
    ELSE LET sampler_var == Head(samplers)
             Succ(v) == CombinesWith(sampler_var, v)
             combined_imgs == SelectSeq(imgs, Succ)
             pushed == IF combined_imgs = << >>
                       THEN <<sampler_var>>
                       ELSE <<sampler_var>> \o
                            [i \in DOMAIN combined_imgs |->
                                CombinedImgSampler(sampler_var, combined_imgs[i])]
         IN  CombineLoopMutKeepAll(Tail(samplers), imgs, out_vars \o pushed)

RECURSIVE CombineLoopMutDropImgs(_, _, _)
CombineLoopMutDropImgs(samplers, imgs, out_vars) ==
    IF samplers = << >> THEN out_vars
    ELSE LET sampler_var == Head(samplers)
             Succ(v) == CombinesWith(sampler_var, v)
             Rest(v) == ~CombinesWith(sampler_var, v)
             combined_imgs == SelectSeq(imgs, Succ)
             pushed == IF combined_imgs = << >>
                       THEN <<sampler_var>>
                       ELSE [i \in DOMAIN combined_imgs |->
                                CombinedImgSampler(sampler_var, combined_imgs[i])]
         IN  CombineLoopMutDropImgs(Tail(samplers), SelectSeq(imgs, Rest),
                                    out_vars \o pushed)

\* The loop over samplers: imgs is drained of the images that go with the
\* sampler, which is put back when there is none.
RECURSIVE CombineLoop(_, _, _)
CombineLoop(samplers, imgs, out_vars) ==
    IF samplers = << >> THEN out_vars \o imgs
    ELSE LET sampler_var == Head(samplers)
             Succ(v) == CombinesWith(sampler_var, v)
             Rest(v) == ~CombinesWith(sampler_var, v)
             combined_imgs == SelectSeq(imgs, Succ)
             pushed == IF combined_imgs = << >>
                       THEN <<sampler_var>>
                       ELSE [i \in DOMAIN combined_imgs |->
                                CombinedImgSampler(sampler_var, combined_imgs[i])]
         IN  CombineLoop(Tail(samplers), SelectSeq(imgs, Rest), out_vars \o pushed)

combine_img_samplers(vs) ==
    LET Other(v) == ~IsSamplerDesc(v) /\ ~IsSampledImageDesc(v)
    IN  CombineLoop(SelectSeq(vs, IsSamplerDesc),
                    SelectSeq(vs, IsSampledImageDesc),
                    SelectSeq(vs, Other))

(***************************************************************************)
(* ReflectIntermediate and its accessors.                                  *)
(***************************************************************************)
ReflectIntermediateDefault ==
    [entry_point_declrs |-> << >>, execution_mode_declrs |-> << >>, vars |-> << >>,
     name_map |-> EmptyMap, deco_map |-> EmptyMap, ty_map |-> EmptyMap,
     var_map |-> EmptyMap, const_map |-> EmptyMap, ptr_map |-> EmptyMap,
     func_map |-> EmptyMap, declr_map |-> EmptyMap]

\* Result<()> of a handler: the intermediate it leaves and "OK" or the Error.
Ok(i) == [itm |-> i, err |-> "OK"]
Err(i, e) == [itm |-> i, err |-> e]

contains_deco(i, id, member_idx, deco) == <<id, member_idx, deco>> \in DOMAIN i.deco_map

get_deco_list(i, id, deco) ==
    IF <<id, None, deco>> \in DOMAIN i.deco_map
    THEN Some(i.deco_map[<<id, None, deco>>]) ELSE None

get_member_deco_list(i, id, member_idx, deco) ==
    IF <<id, Some(member_idx), deco>> \in DOMAIN i.deco_map
    THEN Some(i.deco_map[<<id, Some(member_idx), deco>>]) ELSE None

\* .and_then(|x| x.get(0)): the first word of the payload, if it has one.
FirstWord(list) ==
    IF list.some /\ Len(list.val) > 0 THEN Some(list.val[1]) ELSE None

get_deco_u32(i, id, deco) == FirstWord(get_deco_list(i, id, deco))

get_member_deco_u32(i, id, member_idx, deco) ==
    FirstWord(get_member_deco_list(i, id, member_idx, deco))

UnwrapOr(opt, dflt) == IF opt.some THEN opt.val ELSE dflt

get_var_location_MutNoComponent(i, var_id) ==
    LET loc == get_deco_u32(i, var_id, "Location")
    IN  IF loc.some THEN Some(InterfaceLocation(loc.val, 0)) ELSE None

get_var_location(i, var_id) ==
    LET comp == UnwrapOr(get_deco_u32(i, var_id, "Component"), 0)
        loc == get_deco_u32(i, var_id, "Location")
    IN  IF loc.some THEN Some(InterfaceLocation(loc.val, comp)) ELSE None

get_var_desc_bind(i, var_id) ==
    LET desc_set == UnwrapOr(get_deco_u32(i, var_id, "DescriptorSet"), 0)
        bind_point == get_deco_u32(i, var_id, "Binding")
    IN  IF bind_point.some THEN Some(DescriptorBinding(desc_set, bind_point.val)) ELSE None

get_var_desc_bind_or_default(i, var_id) ==
    UnwrapOr(get_var_desc_bind(i, var_id), DescriptorBinding(0, 0))

has_ty(i, ty_id) == ty_id \in DOMAIN i.ty_map

put_ty_MutOverwrite(i, ty_id, ty) == Ok([i EXCEPT !.ty_map = MapPut(@, ty_id, ty)])

put_ty(i, ty_id, ty) ==
    IF ty_id \in DOMAIN i.ty_map THEN Err(i, "ID_COLLISION")
    ELSE Ok([i EXCEPT !.ty_map = MapPut(@, ty_id, ty)])

get_var(i, var_id) ==
    IF var_id \in DOMAIN i.var_map THEN Some(i.vars[i.var_map[var_id] + 1]) ELSE None

has_const(i, const_id) == const_id \in DOMAIN i.const_map

ConstantIntermediate(value, spec_id) == [value |-> value, spec_id |-> spec_id]

put_const(i, const_id, constant) ==
    IF const_id \in DOMAIN i.const_map THEN Err(i, "ID_COLLISION")
    ELSE Ok([i EXCEPT !.const_map = MapPut(@, const_id, constant)])

\* ConstantValue: the variant and its bits (one u32 word, or two for 64 bits).
ConstantValue(tag, bits) == [tag |-> tag, bits |-> bits]

put_bool_const(i, const_id, value, spec_id) ==
    put_const(i, const_id, ConstantIntermediate(ConstantValue("Bool", value), spec_id))

put_lit_const(i, const_id, ty_id, value, spec_id) ==
    IF ~has_ty(i, ty_id) THEN Err(i, "TY_NOT_FOUND")
    ELSE LET ty == i.ty_map[ty_id]
             four == ty.kind = "Scalar" /\ ty.nbyte = 4 /\ Len(value) = 1
             eight == ty.kind = "Scalar" /\ ty.nbyte = 8 /\ Len(value) = 2
             tag == CASE four /\ ty.scalar = "Unsigned" -> "U32"
                      [] four /\ ty.scalar = "Signed" -> "I32"
                      [] four /\ ty.scalar = "Float" -> "F32"
                      [] eight /\ ty.scalar = "Unsigned" -> "U64"
                      [] eight /\ ty.scalar = "Signed" -> "I64"
                      [] eight /\ ty.scalar = "Float" -> "F64"
                      [] OTHER -> "none"
         IN  IF tag = "none" THEN Err(i, "UNSUPPORTED_CONST_TY")
             ELSE put_const(i, const_id,
                    ConstantIntermediate(
                        ConstantValue(tag, IF Len(value) = 1 THEN value[1] ELSE value),
                        spec_id))

get_name(i, id) ==
    IF <<id, None>> \in DOMAIN i.name_map THEN Some(i.name_map[<<id, None>>]) ELSE None

get_member_name(i, id, member_idx) ==
    IF <<id, Some(member_idx)>> \in DOMAIN i.name_map
    THEN Some(i.name_map[<<id, Some(member_idx)>>]) ELSE None

get_var_name(i, loc) ==
    IF loc \in DOMAIN i.declr_map THEN get_name(i, i.declr_map[loc]) ELSE None

get_desc_access(i, var_id) ==
    LET read_only == contains_deco(i, var_id, None, "NonWritable")
        write_only == contains_deco(i, var_id, None, "NonReadable")
    IN  CASE read_only /\ write_only -> None
          [] read_only /\ ~write_only -> Some("ReadOnly")
          [] ~read_only /\ write_only -> Some("WriteOnly")
          [] OTHER -> Some("ReadWrite")

\* Pointee of a pointer type.
access_chain(i, ty_id) ==
    IF ty_id \in DOMAIN i.ptr_map THEN Some(i.ptr_map[ty_id]) ELSE None

(***************************************************************************)
(* Wrapping arithmetic on u32 words (overflowing_add, _sub, _mul).         *)
(***************************************************************************)
overflowing_add(a, b) ==
    LET lo == a[2] + b[2]
        hi == a[1] + b[1] + (lo \div Half)
    IN  <<hi % Half, lo % Half>>

overflowing_sub(a, b) ==
    LET lo == a[2] - b[2]
        borrow == IF lo < 0 THEN 1 ELSE 0
        hi == a[1] - b[1] - borrow
    IN  <<(hi + Half) % Half, (lo + Half) % Half>>

\* (x * y) mod 2^16 and (x * y) div 2^16 of two halves, byte by byte, so
\* that no intermediate value leaves the range of the checker's integers.
MulHalves(x, y) ==
    LET x0 == x % 256  x1 == x \div 256
        y0 == y % 256  y1 == y \div 256
        mid == x0 * y1 + x1 * y0
        lo_sum == x0 * y0 + (mid % 256) * 256
    IN  [lo |-> lo_sum % Half,
         hi |-> (lo_sum \div Half) + (mid \div 256) + x1 * y1]

overflowing_mul(a, b) ==
    LET ll == MulHalves(a[2], b[2])
        hl == MulHalves(a[1], b[2])
        lh == MulHalves(a[2], b[1])
    IN  <<(ll.hi + hl.lo + lh.lo) % Half, ll.lo>>

\* A conversion of the number in place of the transmute: a negative i32
\* becomes 0.
to_u32_MutSaturate(value) ==
    IF value.tag = "U32" THEN Some(value.bits)
    ELSE IF value.tag = "I32"
    THEN Some(IF value.bits[1] >= 32768 THEN U32(0) ELSE value.bits)
    ELSE None

\* ConstantValue::to_u32 and to_s32: a transmute keeps the bit pattern, so
\* both give the same word; None stands for Err(SPEC_TY_MISMATCHED).
to_u32(value) == IF value.tag \in {"I32", "U32"} THEN Some(value.bits) ELSE None
to_s32(value) == IF value.tag \in {"I32", "U32"} THEN Some(value.bits) ELSE None

\* ConstantValue::ty
ConstTy(value) ==
    CASE value.tag = "Bool" -> ScalarTy("Boolean", 1)
      [] value.tag = "I32" -> ScalarTy("Signed", 4)
      [] value.tag = "U32" -> ScalarTy("Unsigned", 4)
      [] value.tag = "F32" -> ScalarTy("Float", 4)
      [] value.tag = "I64" -> ScalarTy("Signed", 8)
      [] value.tag = "U64" -> ScalarTy("Unsigned", 8)
      [] value.tag = "F64" -> ScalarTy("Float", 8)

(***************************************************************************)
(* Constructors of crate::ty that reflect.rs calls.                        *)
(***************************************************************************)
\* ScalarType::int(nbyte, is_signed), ScalarType::float(nbyte), ::boolean()
ScalarInt(nbyte, is_signed) ==
    ScalarTy(IF is_signed THEN "Signed" ELSE "Unsigned", nbyte)
ScalarFloat(nbyte) == ScalarTy("Float", nbyte)
ScalarBoolean == ScalarTy("Boolean", 1)

VectorTy(scalar_ty, nscalar) ==
    [kind |-> "Vector", scalar_ty |-> scalar_ty, nscalar |-> nscalar]
MatrixTy(vec_ty, nvec, stride, major) ==
    [kind |-> "Matrix", vec_ty |-> vec_ty, nvec |-> nvec, stride |-> stride,
     major |-> major]

\* ArrayType::new, new_multibind, new_unsized, new_unsized_multibind
ArrayNew(proto_ty, nrepeat, stride) == ArrayTy(proto_ty, Some(nrepeat), Some(stride))
ArrayNewMultibind(proto_ty, nrepeat) == ArrayTy(proto_ty, Some(nrepeat), None)
ArrayNewUnsized(proto_ty, stride) == ArrayTy(proto_ty, None, Some(stride))
ArrayNewUnsizedMultibind(proto_ty) == ArrayTy(proto_ty, None, None)

\* ImageUnitFormat::from_spv_def(is_sampled, is_depth, color_fmt)
ImageUnitFormatFromSpvDef(is_sampled, is_depth, color_fmt) ==
    CASE is_sampled = 1 /\ is_depth = 0 -> Some([fmt |-> "Sampled"])
      [] is_sampled = 1 /\ is_depth = 1 -> Some([fmt |-> "Depth"])
      [] is_sampled = 2 /\ is_depth = 0 -> Some([fmt |-> "Color", color |-> color_fmt])
      [] OTHER -> None

\* ImageArrangement::from_spv_def(dim, is_array, is_multisampled)
ImageArrangementFromSpvDef(dim, is_array, is_multisampled) ==
    CASE dim = "Dim1D" /\ ~is_array /\ ~is_multisampled -> Some("Image1D")
      [] dim = "Dim2D" /\ ~is_array /\ ~is_multisampled -> Some("Image2D")
      [] dim = "Dim2D" /\ ~is_array /\ is_multisampled -> Some("Image2DMS")
      [] dim = "Dim3D" /\ ~is_array /\ ~is_multisampled -> Some("Image3D")
      [] dim = "DimCube" /\ ~is_array /\ ~is_multisampled -> Some("CubeMap")
      [] dim = "Dim1D" /\ is_array /\ ~is_multisampled -> Some("Image1DArray")
      [] dim = "Dim2D" /\ is_array /\ ~is_multisampled -> Some("Image2DArray")
      [] dim = "Dim2D" /\ is_array /\ is_multisampled -> Some("Image2DMSArray")
      [] dim = "DimCube" /\ is_array /\ ~is_multisampled -> Some("CubeMapArray")
      [] dim = "DimBuffer" /\ ~is_array /\ ~is_multisampled -> Some("ImageBuffer")
      [] OTHER -> None

\* SubpassDataArrangement::from_spv_def(is_multisampled)
SubpassDataArrangementFromSpvDef(is_multisampled) ==
    IF is_multisampled THEN "SubpassDataMS" ELSE "SubpassData"

(***************************************************************************)
(* populate_one_ty: one type instruction.                                  *)
(***************************************************************************)
RECURSIVE InnerTy(_)
\* while let Type::Array(arr_ty) = proto_ty { proto_ty = arr_ty.proto_ty }
InnerTy(ty) == IF ty.kind = "Array" THEN InnerTy(ty.proto_ty) ELSE ty

RECURSIVE DecorateInner(_, _, _)
\* mat_ty.decorate(mat_stride, major) on the matrix under the arrays
DecorateInner(ty, mat_stride, major) ==
    IF ty.kind = "Array"
    THEN [ty EXCEPT !.proto_ty = DecorateInner(@, mat_stride, major)]
    ELSE [ty EXCEPT !.stride = Some(mat_stride), !.major = Some(major)]

StructMember(name, offset, ty) == [name |-> name, offset |-> offset, ty |-> ty]

RECURSIVE StructMembers(_, _, _, _)
\* The loop over op.member_ty_ids from member idx on (0-based): the members,
\* or "skip" (return Ok(()) with nothing registered), or the Error.
StructMembers(i, op, idx, members) ==
    IF idx = Len(op.member_ty_ids) THEN [res |-> "members", members |-> members]
    ELSE
    LET member_ty_id == op.member_ty_ids[idx + 1] IN
    IF ~has_ty(i, member_ty_id) THEN [res |-> "skip"]
    ELSE
    LET member_ty == i.ty_map[member_ty_id]
        is_mat == InnerTy(member_ty).kind = "Matrix"
        mat_stride == get_member_deco_u32(i, op.ty_id, idx, "MatrixStride")
        row_major == contains_deco(i, op.ty_id, Some(idx), "RowMajor")
        col_major == contains_deco(i, op.ty_id, Some(idx), "ColMajor")
        nm == get_member_name(i, op.ty_id, idx)
        name == IF nm.some /\ nm.val # "" THEN nm ELSE None
        offset == get_member_deco_u32(i, op.ty_id, idx, "Offset")
    IN  IF is_mat /\ ~mat_stride.some THEN [res |-> "err", err |-> "MISSING_DECO"]
        ELSE IF is_mat /\ (row_major = col_major)
        THEN [res |-> "err", err |-> "UNENCODED_ENUM"]
        ELSE IF ~offset.some THEN [res |-> "skip"]
        ELSE LET decorated ==
                    IF is_mat
                    THEN DecorateInner(member_ty, mat_stride.val,
                             IF row_major THEN "RowMajor" ELSE "ColumnMajor")
                    ELSE member_ty
             IN  StructMembers(i, op, idx + 1,
                     Append(members, StructMember(name, offset.val, decorated)))

populate_one_ty(i, op) ==
    CASE op.op = "OpTypeFunction" -> Ok(i)
      [] op.op = "OpTypeVoid" -> put_ty(i, op.ty_id, VoidTy)
      [] op.op = "OpTypeBool" -> put_ty(i, op.ty_id, ScalarBoolean)
      [] op.op = "OpTypeInt" ->
            put_ty(i, op.ty_id, ScalarInt(op.nbyte \div 8, op.is_signed))
      [] op.op = "OpTypeFloat" -> put_ty(i, op.ty_id, ScalarFloat(op.nbyte \div 8))
      [] op.op = "OpTypeVector" ->
            IF ~has_ty(i, op.scalar_ty_id) THEN Err(i, "TY_NOT_FOUND")
            ELSE IF i.ty_map[op.scalar_ty_id].kind = "Scalar"
            THEN put_ty(i, op.ty_id, VectorTy(i.ty_map[op.scalar_ty_id], op.nscalar))
            ELSE Err(i, "BROKEN_NESTED_TY")
      [] op.op = "OpTypeMatrix" ->
            IF ~has_ty(i, op.vec_ty_id) THEN Err(i, "TY_NOT_FOUND")
            ELSE IF i.ty_map[op.vec_ty_id].kind = "Vector"
            THEN put_ty(i, op.ty_id, MatrixTy(i.ty_map[op.vec_ty_id], op.nvec, None, None))
            ELSE Err(i, "BROKEN_NESTED_TY")
      [] op.op = "OpTypeImage" ->
            IF ~has_ty(i, op.scalar_ty_id) THEN Err(i, "TY_NOT_FOUND")
            ELSE IF i.ty_map[op.scalar_ty_id].kind \notin {"Scalar", "Void"}
            THEN Err(i, "BROKEN_NESTED_TY")
            ELSE
            LET sty == i.ty_map[op.scalar_ty_id]
                scalar_ty == IF sty.kind = "Scalar" THEN Some(sty) ELSE None
                unit_fmt == ImageUnitFormatFromSpvDef(op.is_sampled, op.is_depth,
                                                      op.color_fmt)
                arng == ImageArrangementFromSpvDef(op.dim, op.is_array,
                                                   op.is_multisampled)
            IN  IF op.dim = "DimSubpassData"
                THEN put_ty(i, op.ty_id,
                        SubpassDataTy(scalar_ty,
                            SubpassDataArrangementFromSpvDef(op.is_multisampled)))
                ELSE IF ~unit_fmt.some \/ ~arng.some THEN Err(i, "UNSUPPORTED_IMG_CFG")
                ELSE put_ty(i, op.ty_id, ImageTy(scalar_ty, unit_fmt.val, arng.val))
      [] op.op = "OpTypeSampler" -> put_ty(i, op.ty_id, SamplerTy)
      [] op.op = "OpTypeSampledImage" ->
            IF ~has_ty(i, op.img_ty_id) THEN Err(i, "TY_NOT_FOUND")
            ELSE IF i.ty_map[op.img_ty_id].kind = "Image"
            THEN put_ty(i, op.ty_id, SampledImageTy(i.ty_map[op.img_ty_id]))
            ELSE Err(i, "BROKEN_NESTED_TY")
      [] op.op = "OpTypeArray" ->
            IF ~has_ty(i, op.proto_ty_id) THEN Ok(i)
            ELSE IF ~has_const(i, op.nrepeat_const_id) THEN Err(i, "CONST_NOT_FOUND")
            ELSE
            LET proto_ty == i.ty_map[op.proto_ty_id]
                nrepeat == to_u32(i.const_map[op.nrepeat_const_id].value)
                stride == get_deco_u32(i, op.ty_id, "ArrayStride")
            IN  IF ~nrepeat.some THEN Err(i, "SPEC_TY_MISMATCHED")
                ELSE put_ty(i, op.ty_id,
                        IF stride.some
                        THEN ArrayNew(proto_ty, nrepeat.val, stride.val)
                        ELSE ArrayNewMultibind(proto_ty, nrepeat.val))
      [] op.op = "OpTypeRuntimeArray" ->
            IF ~has_ty(i, op.proto_ty_id) THEN Ok(i)
            ELSE
            LET proto_ty == i.ty_map[op.proto_ty_id]
                stride == get_deco_u32(i, op.ty_id, "ArrayStride")
            IN  put_ty(i, op.ty_id,
                    IF stride.some
                    THEN ArrayNewUnsized(proto_ty, stride.val)
                    ELSE ArrayNewUnsizedMultibind(proto_ty))
      [] op.op = "OpTypeStruct" ->
            LET r == StructMembers(i, op, 0, << >>)
            IN  (CASE r.res = "skip" -> Ok(i)
                   [] r.res = "err" -> Err(i, r.err)
                   [] OTHER -> put_ty(i, op.ty_id,
                                      StructTy(get_name(i, op.ty_id), r.members)))
      [] op.op = "OpTypePointer" ->
            IF op.ty_id \in DOMAIN i.ptr_map THEN Err(i, "ID_COLLISION")
            ELSE Ok([i EXCEPT !.ptr_map = MapPut(@, op.ty_id, op.target_ty_id)])
      [] op.op = "OpTypeAccelerationStructureKHR" -> put_ty(i, op.ty_id, AccelStructTy)
      [] OTHER -> Err(i, "UNSUPPORTED_TY")

(***************************************************************************)
(* populate_one_const, populate_one_spec_const_op, populate_one_spec_const *)
(***************************************************************************)
populate_one_const(i, op) ==
    CASE op.op = "OpConstantTrue" -> put_bool_const(i, op.const_id, TRUE, None)
      [] op.op = "OpConstantFalse" -> put_bool_const(i, op.const_id, FALSE, None)
      [] op.op = "OpConstant" -> put_lit_const(i, op.const_id, op.ty_id, op.value, None)
      [] OTHER -> Ok(i)

\* Integers of 32 bits and words: the least i32, the integer a word
\* stands for in two's complement, and the word of an integer.
MinI32 == (-2147483647) - 1
WordToInt(w) ==
    IF w[1] < 32768 THEN w[1] * Half + w[2]
    ELSE ((w[1] - 32768) * Half + w[2]) + MinI32
IntToWord(n) ==
    IF n >= 0 THEN U32(n)
    ELSE LET m == n - MinI32 IN <<(m \div Half) + 32768, m % Half>>

\* i32::overflowing_neg: the negation wraps at the least i32.
overflowing_neg(a) ==
    IF WordToInt(a) = MinI32 THEN a ELSE IntToWord(0 - WordToInt(a))

\* The quotient rounded towards zero of two i32 with b # 0, (MinI32, -1)
\* excepted; no intermediate value leaves the range of i32.
TruncDiv(a, b) ==
    LET pos(d) == IF a >= 0 \/ a % d = 0 THEN a \div d ELSE (a \div d) + 1
    IN  IF b > 0 THEN pos(b)
        ELSE IF b = MinI32 THEN (IF a = MinI32 THEN 1 ELSE 0)
        ELSE 0 - pos(0 - b)

\* i32::overflowing_div, overflowing_rem and overflowing_rem_euclid of two
\* words with b # 0: MinI32 / -1 wraps to MinI32, with remainder 0.
overflowing_div_i32(a, b) ==
    LET x == WordToInt(a)  y == WordToInt(b)
    IN  IF x = MinI32 /\ y = -1 THEN a ELSE IntToWord(TruncDiv(x, y))

overflowing_rem_i32(a, b) ==
    LET x == WordToInt(a)  y == WordToInt(b)
    IN  IF x = MinI32 /\ y = -1 THEN U32(0)
        ELSE IntToWord(x - y * TruncDiv(x, y))

overflowing_rem_euclid_i32(a, b) ==
    LET r == WordToInt(overflowing_rem_i32(a, b))
        y == WordToInt(b)
    IN  IntToWord(IF r >= 0 THEN r ELSE IF y < 0 THEN r - y ELSE r + y)

\* u32::overflowing_div and overflowing_rem_euclid of two words with b # 0.
\* A dividend of 2^31 or more is divided through its half.
overflowing_div_u32(a, b) ==
    LET less == a[1] < b[1] \/ (a[1] = b[1] /\ a[2] < b[2])
        y == b[1] * Half + b[2]
        h == a[1] * 32768 + (a[2] \div 2)
        bit == a[2] % 2
        r0 == h % y
        up == IF r0 >= y - r0 - bit THEN 1 ELSE 0
    IN  IF b[1] >= 32768 THEN U32(IF less THEN 0 ELSE 1)
        ELSE IF a[1] < 32768 THEN U32((a[1] * Half + a[2]) \div y)
        ELSE IF y = 1 THEN a
        ELSE U32(2 * (h \div y) + up)

overflowing_rem_euclid_u32(a, b) ==
    overflowing_sub(a, overflowing_mul(overflowing_div_u32(a, b), b))

\* u32::overflowing_shl and overflowing_shr: the shift amount is taken
\* modulo the 32 bits of the word.
RECURSIVE ShiftLeft(_, _)
ShiftLeft(w, k) ==
    IF k = 0 THEN w
    ELSE ShiftLeft(<<(w[1] * 2 + (w[2] \div 32768)) % Half, (w[2] * 2) % Half>>,
                   k - 1)

RECURSIVE ShiftRight(_, _)
ShiftRight(w, k) ==
    IF k = 0 THEN w
    ELSE ShiftRight(<<w[1] \div 2, (w[2] \div 2) + (w[1] % 2) * 32768>>, k - 1)

overflowing_shl(a, b) == ShiftLeft(a, b[2] % 32)
overflowing_shr(a, b) == ShiftRight(a, b[2] % 32)

\* The operators |, ^ and & of u32, bit by bit on the n low bits of two
\* halves, and ! of u32.
RECURSIVE BitHalves(_, _, _, _)
BitHalves(opcode, x, y, n) ==
    LET p == x % 2  q == y % 2
        bit == CASE opcode = "OpBitwiseOr" -> IF p + q > 0 THEN 1 ELSE 0
                 [] opcode = "OpBitwiseXor" -> (p + q) % 2
                 [] OTHER -> p * q
    IN  IF n = 0 THEN 0
        ELSE bit + 2 * BitHalves(opcode, x \div 2, y \div 2, n - 1)

Bitwise(opcode, a, b) ==
    <<BitHalves(opcode, a[1], b[1], 16), BitHalves(opcode, a[2], b[2], 16)>>

BitNot(a) == <<65535 - a[1], 65535 - a[2]>>

\* The opcodes populate_one_spec_const_op folds, and those of them that
\* read one operand, read their operands as i32, or divide by the second.
FoldedOps ==
    {"OpSNegate", "OpNot", "OpIAdd", "OpISub", "OpIMul", "OpUDiv", "OpSDiv",
     "OpUMod", "OpSRem", "OpSMod", "OpShiftRightLogical",
     "OpShiftLeftLogical", "OpBitwiseOr", "OpBitwiseXor", "OpBitwiseAnd"}
UnaryOps == {"OpSNegate", "OpNot"}
SignedOps == {"OpSNegate", "OpSDiv", "OpSRem", "OpSMod"}
DividingOps == {"OpUDiv", "OpSDiv", "OpUMod", "OpSRem", "OpSMod"}

\* get_const(id)?.value.to_u32()? (or to_s32) of the operands in turn:
\* the Error of the first one that fails, or "OK".
RECURSIVE OperandsErr(_, _, _)
OperandsErr(i, ids, signed) ==
    LET value == i.const_map[Head(ids)].value
        read == IF signed THEN to_s32(value) ELSE to_u32(value)
    IN  IF ids = << >> THEN "OK"
        ELSE IF ~has_const(i, Head(ids)) THEN "CONST_NOT_FOUND"
        ELSE IF ~read.some THEN "SPEC_TY_MISMATCHED"
        ELSE OperandsErr(i, Tail(ids), signed)

\* The value an arm of the match on op.opcode computes from its operands.
FoldValue(opcode, a, b) ==
    CASE opcode = "OpSNegate" -> overflowing_neg(a)
      [] opcode = "OpNot" -> BitNot(a)
      [] opcode = "OpIAdd" -> overflowing_add(a, b)
      [] opcode = "OpISub" -> overflowing_sub(a, b)
      [] opcode = "OpIMul" -> overflowing_mul(a, b)
      [] opcode = "OpUDiv" -> overflowing_div_u32(a, b)
      [] opcode = "OpSDiv" -> overflowing_div_i32(a, b)
      [] opcode = "OpUMod" -> overflowing_rem_euclid_u32(a, b)
      [] opcode = "OpSRem" -> overflowing_rem_i32(a, b)
      [] opcode = "OpSMod" -> overflowing_rem_euclid_i32(a, b)
      [] opcode = "OpShiftRightLogical" -> overflowing_shr(a, b)
      [] opcode = "OpShiftLeftLogical" -> overflowing_shl(a, b)
      [] OTHER -> Bitwise(opcode, a, b)

\* The integer division and remainder of Rust panic on a divisor of 0.
populate_one_spec_const_op(i, op) ==
    LET ids == IF op.opcode \in UnaryOps THEN <<op.a_id>>
               ELSE <<op.a_id, op.b_id>>
        signed == op.opcode \in SignedOps
        e == OperandsErr(i, ids, signed)
        Read(id) == IF signed THEN to_s32(i.const_map[id].value).val
                    ELSE to_u32(i.const_map[id].value).val
        a == Read(op.a_id)
        b == Read(op.b_id)
        tag == IF signed THEN "I32" ELSE "U32"
    IN  IF op.opcode \notin FoldedOps THEN Err(i, "UNSUPPORTED_SPEC")
        ELSE IF e # "OK" THEN Err(i, e)
        ELSE IF op.opcode \in DividingOps /\ b = U32(0) THEN Err(i, "panic")
        ELSE put_const(i, op.spec_const_id,
                 ConstantIntermediate(
                     ConstantValue(tag, FoldValue(op.opcode, a, IF op.opcode \in UnaryOps THEN a ELSE b)),
                     None))

populate_one_spec_const_MutKeepSpecId(i, op, c) ==
    CASE op.op \in {"OpSpecConstantTrue", "OpSpecConstantFalse", "OpSpecConstant"} ->
            LET spec_id == get_deco_u32(i, op.const_id, "SpecId") IN
            IF ~spec_id.some THEN Err(i, "MISSING_DECO")
            ELSE IF spec_id.val \in DOMAIN c.spec_values
            THEN put_const(i, op.const_id,
                    ConstantIntermediate(c.spec_values[spec_id.val], spec_id))
            ELSE (CASE op.op = "OpSpecConstantTrue" ->
                         put_bool_const(i, op.const_id, TRUE, spec_id)
                    [] op.op = "OpSpecConstantFalse" ->
                         put_bool_const(i, op.const_id, FALSE, spec_id)
                    [] OTHER ->
                         put_lit_const(i, op.const_id, op.ty_id, op.value, spec_id))
      [] op.op = "OpSpecConstantComposite" -> Ok(i)
      [] op.op = "OpSpecConstantOp" -> populate_one_spec_const_op(i, op)
      [] OTHER -> Err(i, "UNSUPPORTED_SPEC")

populate_one_spec_const(i, op, c) ==
    CASE op.op \in {"OpSpecConstantTrue", "OpSpecConstantFalse", "OpSpecConstant"} ->
            LET spec_id == get_deco_u32(i, op.const_id, "SpecId") IN
            IF ~spec_id.some THEN Err(i, "MISSING_DECO")
            ELSE IF spec_id.val \in DOMAIN c.spec_values
            THEN put_const(i, op.const_id,
                    ConstantIntermediate(c.spec_values[spec_id.val], None))
            ELSE (CASE op.op = "OpSpecConstantTrue" ->
                         put_bool_const(i, op.const_id, TRUE, spec_id)
                    [] op.op = "OpSpecConstantFalse" ->
                         put_bool_const(i, op.const_id, FALSE, spec_id)
                    [] OTHER ->
                         put_lit_const(i, op.const_id, op.ty_id, op.value, spec_id))
      [] op.op = "OpSpecConstantComposite" -> Ok(i)
      [] op.op = "OpSpecConstantOp" -> populate_one_spec_const_op(i, op)
      [] OTHER -> Err(i, "UNSUPPORTED_SPEC")

(***************************************************************************)
(* populate_one_var: one OpVariable.                                       *)
(***************************************************************************)
extract_proto_ty_MutKeepArray(ty) == [nbind |-> U32(1), ty |-> ty]

\* (binding count, element type) of the pointee of a descriptor variable
extract_proto_ty(ty) ==
    IF ty.kind = "Array"
    THEN [nbind |-> UnwrapOr(ty.nrepeat, U32(0)), ty |-> ty.proto_ty]
    ELSE [nbind |-> U32(1), ty |-> ty]

\* The arm of StorageClass::Uniform: Some(var), or None with the Error.
UniformVar(i, op, ty_id, ty, name) ==
    LET p == extract_proto_ty(ty)
        desc_bind == get_var_desc_bind_or_default(i, op.var_id)
        access == get_desc_access(i, op.var_id)
    IN  IF contains_deco(i, ty_id, None, "BufferBlock")
        THEN IF ~access.some THEN [err |-> "ACCESS_CONFLICT"]
             ELSE [err |-> "OK",
                   var |-> Some(DescriptorVar(name, desc_bind,
                               DescTyAccess("StorageBuffer", access.val), p.ty, p.nbind))]
        ELSE [err |-> "OK",
              var |-> Some(DescriptorVar(name, desc_bind, DescTy("UniformBuffer"),
                                         p.ty, p.nbind))]

\* The arm of StorageClass::StorageBuffer.
StorageBufferVar(i, op, ty, name) ==
    LET p == extract_proto_ty(ty)
        desc_bind == get_var_desc_bind_or_default(i, op.var_id)
        access == get_desc_access(i, op.var_id)
    IN  IF ~access.some THEN [err |-> "ACCESS_CONFLICT"]
        ELSE [err |-> "OK",
              var |-> Some(DescriptorVar(name, desc_bind,
                               DescTyAccess("StorageBuffer", access.val), p.ty, p.nbind))]

UniformConstantVar_MutSampled(i, op, ty, name) ==
    LET p == extract_proto_ty(ty)
        desc_bind == get_var_desc_bind_or_default(i, op.var_id)
    IN  IF p.ty.kind \in {"Image", "Sampler", "SampledImage", "SubpassData", "AccelStruct"}
        THEN [err |-> "OK",
              var |-> Some(DescriptorVar(name, desc_bind, DescTy("SampledImage"),
                                         p.ty, p.nbind))]
        ELSE [err |-> "UNSUPPORTED_TY"]

\* The arm of StorageClass::UniformConstant.
UniformConstantVar(i, op, ty, name) ==
    LET p == extract_proto_ty(ty)
        desc_bind == get_var_desc_bind_or_default(i, op.var_id)
        access == get_desc_access(i, op.var_id)
        input_attm_idx == get_deco_u32(i, op.var_id, "InputAttachmentIndex")
        Desc(desc_ty) ==
            [err |-> "OK",
             var |-> Some(DescriptorVar(name, desc_bind, desc_ty, p.ty, p.nbind))]
    IN  CASE p.ty.kind = "Image" ->
                (CASE p.ty.unit_fmt.fmt = "Color" ->
                         IF ~access.some THEN [err |-> "ACCESS_CONFLICT"]
                         ELSE IF p.ty.arng = "ImageBuffer"
                         THEN Desc(DescTyAccess("StorageTexelBuffer", access.val))
                         ELSE Desc(DescTyAccess("StorageImage", access.val))
                   [] p.ty.unit_fmt.fmt = "Sampled" ->
                         IF p.ty.arng = "ImageBuffer"
                         THEN Desc(DescTy("UniformTexelBuffer"))
                         ELSE Desc(DescTy("SampledImage"))
                   [] p.ty.unit_fmt.fmt = "Depth" -> Desc(DescTy("SampledImage")))
          [] p.ty.kind = "Sampler" -> Desc(DescTy("Sampler"))
          [] p.ty.kind = "SampledImage" ->
                IF p.ty.img_ty.arng = "ImageBuffer"
                THEN Desc(DescTy("UniformTexelBuffer"))
                ELSE Desc(DescTy("CombinedImageSampler"))
          [] p.ty.kind = "SubpassData" ->
                IF ~input_attm_idx.some THEN [err |-> "MISSING_DECO"]
                ELSE Desc(InputAttachment(input_attm_idx.val))
          [] p.ty.kind = "AccelStruct" -> Desc(DescTy("AccelStruct"))
          [] OTHER -> [err |-> "UNSUPPORTED_TY"]

\* The match on op.store_cls: the variable to register, if any.
ClassifyVar(i, op, ty_id, ty, name) ==
    LET location == get_var_location(i, op.var_id) IN
    CASE op.store_cls = "Input" ->
            [err |-> "OK",
             var |-> IF location.some THEN Some(InputVar(name, location.val, ty))
                     ELSE None]
      [] op.store_cls = "Output" ->
            [err |-> "OK",
             var |-> IF location.some THEN Some(OutputVar(name, location.val, ty))
                     ELSE None]
      [] op.store_cls = "PushConstant" ->
            IF ty.kind = "Struct"
            THEN [err |-> "OK", var |-> Some(PushConstantVar(name, ty))]
            ELSE [err |-> "TY_NOT_FOUND"]
      [] op.store_cls = "Uniform" -> UniformVar(i, op, ty_id, ty, name)
      [] op.store_cls = "StorageBuffer" -> StorageBufferVar(i, op, ty, name)
      [] op.store_cls = "UniformConstant" -> UniformConstantVar(i, op, ty, name)
      [] OTHER -> [err |-> "OK", var |-> None]

\* The registration without the test of the id.
RegisterVar_MutNoCollision(i, op, var) ==
    Ok([i EXCEPT !.var_map = MapPut(@, op.var_id, Len(i.vars)),
                 !.declr_map = MapPut(@, locator(var), op.var_id),
                 !.vars = Append(@, var)])

\* Register variable: var_map, declr_map, vars.
RegisterVar(i, op, var) ==
    IF op.var_id \in DOMAIN i.var_map THEN Err(i, "ID_COLLISION")
    ELSE Ok([i EXCEPT !.var_map = MapPut(@, op.var_id, Len(i.vars)),
                      !.declr_map = MapPut(@, locator(var), op.var_id),
                      !.vars = Append(@, var)])

populate_one_var(i, op) ==
    LET ty_id == access_chain(i, op.ty_id) IN
    IF ~ty_id.some THEN Err(i, "BROKEN_ACCESS_CHAIN")
    ELSE IF ~has_ty(i, ty_id.val) THEN Ok(i)
    ELSE LET c == ClassifyVar(i, op, ty_id.val, i.ty_map[ty_id.val],
                              get_name(i, op.var_id))
         IN  IF c.err # "OK" THEN Err(i, c.err)
             ELSE IF c.var.some THEN RegisterVar(i, op, c.var.val)
             ELSE Ok(i)

(***************************************************************************)
(* populate_defs: the dispatch on the opcode of a definition instruction.  *)
(***************************************************************************)
TypeOps ==
    {"OpTypeVoid", "OpTypeBool", "OpTypeInt", "OpTypeFloat", "OpTypeVector",
     "OpTypeMatrix", "OpTypeImage", "OpTypeSampler", "OpTypeSampledImage",
     "OpTypeArray", "OpTypeRuntimeArray", "OpTypeStruct", "OpTypeOpaque",
     "OpTypePointer", "OpTypeFunction", "OpTypeAccelerationStructureKHR"}
ConstOps == {"OpConstantTrue", "OpConstantFalse", "OpConstant", "OpConstantComposite"}
SpecConstOps ==
    {"OpSpecConstantTrue", "OpSpecConstantFalse", "OpSpecConstant",
     "OpSpecConstantComposite", "OpSpecConstantOp"}

IsDefOp(op) == op.op \in TypeOps \cup ConstOps \cup SpecConstOps \cup {"OpVariable"}

\* The dispatch with an OpTypePointer that also enters the type table.
populate_one_def_MutPointerTy(i, op, c) ==
    CASE op.op = "OpTypePointer" ->
            LET r == populate_one_ty(i, op)
            IN  IF r.err # "OK" THEN r
                ELSE Ok([r.itm EXCEPT !.ty_map =
                            MapPut(@, op.ty_id,
                                   [kind |-> "Pointer", target |-> op.target_ty_id])])
      [] op.op \in TypeOps -> populate_one_ty(i, op)
      [] op.op = "OpVariable" -> populate_one_var(i, op)
      [] op.op \in ConstOps -> populate_one_const(i, op)
      [] op.op \in SpecConstOps -> populate_one_spec_const(i, op, c)

populate_one_def(i, op, c) ==
    CASE op.op \in TypeOps -> populate_one_ty(i, op)
      [] op.op = "OpVariable" -> populate_one_var(i, op)
      [] op.op \in ConstOps -> populate_one_const(i, op)
      [] op.op \in SpecConstOps -> populate_one_spec_const(i, op, c)

RECURSIVE populate_defs(_, _, _)
\* The loop of populate_defs over a run of definition instructions; it ends
\* at the first Error.
populate_defs(i, instrs, c) ==
    IF instrs = << >> THEN Ok(i)
    ELSE LET r == populate_one_def(i, Head(instrs), c)
         IN  IF r.err # "OK" THEN r ELSE populate_defs(r.itm, Tail(instrs), c)

(***************************************************************************)
(* populate_entry_points and populate_access: one instruction each.        *)
(***************************************************************************)
EntryPointDeclartion(func, name, exec_model) ==
    [func_id |-> func, name |-> name, exec_model |-> exec_model]

populate_entry_point(i, op) ==
    Ok([i EXCEPT !.entry_point_declrs =
            Append(@, EntryPointDeclartion(op.func_id, op.name, op.exec_model))])

\* let mut func_id: InstrId = !0: no function frame is open
NoFunc == -1

FunctionIntermediateDefault == [accessed_vars |-> {}, callees |-> {}]

\* OP_LOAD | OP_ATOMIC_LOAD | OP_ATOMIC_EXCHANGE..=OP_ATOMIC_XOR
LoadOps ==
    {"OpLoad", "OpAtomicLoad", "OpAtomicExchange", "OpAtomicCompareExchange",
     "OpAtomicIIncrement", "OpAtomicIAdd", "OpAtomicXor"}
\* OP_STORE | OP_ATOMIC_STORE
StoreOps == {"OpStore", "OpAtomicStore"}

\* State of the walk: the intermediate and the two locals of populate_access.
Walk(i, acm, f, e) == [itm |-> i, access_chain_map |-> acm, func_id |-> f, err |-> e]

\* The arms of the loads and of the stores: resolve the access chain, then
\* add the variable to the accessed variables of the open function.
AccessVar(w, op) ==
    LET var_id == IF op.var_id \in DOMAIN w.access_chain_map
                  THEN w.access_chain_map[op.var_id] ELSE op.var_id
    IN  IF w.func_id \notin DOMAIN w.itm.func_map
        THEN Walk(w.itm, w.access_chain_map, w.func_id, "FUNC_NOT_FOUND")
        ELSE Walk([w.itm EXCEPT !.func_map[w.func_id].accessed_vars = @ \cup {var_id}],
                  w.access_chain_map, w.func_id, "OK")

populate_access_one(w, op) ==
    CASE op.op = "OpFunction" ->
            IF op.func_id \in DOMAIN w.itm.func_map
            THEN Walk(w.itm, w.access_chain_map, op.func_id, "ID_COLLISION")
            ELSE Walk([w.itm EXCEPT !.func_map =
                          MapPut(@, op.func_id, FunctionIntermediateDefault)],
                      w.access_chain_map, op.func_id, "OK")
      [] op.op = "OpFunctionCall" ->
            IF w.func_id \notin DOMAIN w.itm.func_map
            THEN Walk(w.itm, w.access_chain_map, w.func_id, "FUNC_NOT_FOUND")
            ELSE Walk([w.itm EXCEPT !.func_map[w.func_id].callees = @ \cup {op.func_id}],
                      w.access_chain_map, w.func_id, "OK")
      [] op.op \in LoadOps \cup StoreOps -> AccessVar(w, op)
      [] op.op = "OpAccessChain" ->
            IF op.var_id \in DOMAIN w.access_chain_map
            THEN Walk(w.itm, w.access_chain_map, w.func_id, "ID_COLLISION")
            ELSE Walk(w.itm, MapPut(w.access_chain_map, op.var_id, op.accessed_var_id),
                      w.func_id, "OK")
      [] op.op = "OpFunctionEnd" -> Walk(w.itm, w.access_chain_map, NoFunc, "OK")
      [] OTHER -> w

(***************************************************************************)
(* The projection: collect_fn_vars, collect_entry_point_vars,              *)
(* collect_entry_point_specs, collect_exec_modes, collect_entry_points.    *)
(***************************************************************************)
RECURSIVE collect_fn_vars_impl(_, _, _)
\* The recursion over the callees.  depth counts the frames of the
\* recursion: with more frames than there are functions a function is on
\* the call path twice, and the recursion of the code never returns.
collect_fn_vars_impl(i, func, depth) ==
    IF func \notin DOMAIN i.func_map THEN [overflow |-> FALSE, vars |-> {}]
    ELSE IF depth > Cardinality(DOMAIN i.func_map)
    THEN [overflow |-> TRUE, vars |-> {}]
    ELSE LET f == i.func_map[func]
             subs == {collect_fn_vars_impl(i, call, depth + 1) : call \in f.callees}
         IN  [overflow |-> \E r \in subs : r.overflow,
              vars |-> f.accessed_vars \cup UNION {r.vars : r \in subs}]

collect_fn_vars(i, func) == collect_fn_vars_impl(i, func, 1)

\* The orders in which a HashSet or the values of a HashMap may be iterated.
Orders(S) == {o \in [1 .. Cardinality(S) -> S] : Range(o) = S}

RECURSIVE VarsOf(_, _)
\* if let Some(accessed_var) = self.get_var(accessed_var_id) { vars.push(..) }
VarsOf(i, ids) ==
    IF ids = << >> THEN << >>
    ELSE LET v == get_var(i, Head(ids))
         IN  (IF v.some THEN <<v.val>> ELSE << >>) \o VarsOf(i, Tail(ids))

\* Every Vec collect_entry_point_vars may return.
collect_entry_point_vars(i, func) ==
    {VarsOf(i, o) : o \in Orders(collect_fn_vars(i, func).vars)}

\* Every Vec collect_entry_point_specs may return.
collect_entry_point_specs(i) ==
    LET spec_consts == {id \in DOMAIN i.const_map : i.const_map[id].spec_id.some}
        SpecOf(id) ==
            LET constant == i.const_map[id]
            IN  SpecConstantVar(
                    get_var_name(i, [loc |-> "SpecConstant", at |-> constant.spec_id.val]),
                    constant.spec_id.val, ConstTy(constant.value))
    IN  {[k \in DOMAIN o |-> SpecOf(o[k])] : o \in Orders(spec_consts)}

collect_exec_modes_MutNoFilter(i, func) ==
    [k \in DOMAIN i.execution_mode_declrs |-> i.execution_mode_declrs[k].execution_mode]

collect_exec_modes(i, func) ==
    LET Mine(declaration) == declaration.func_id = func
        mine == SelectSeq(i.execution_mode_declrs, Mine)
    IN  [k \in DOMAIN mine |-> mine[k].execution_mode]

EntryPoint(name, exec_model, vs, exec_modes) ==
    [name |-> name, exec_model |-> exec_model, vars |-> vs, exec_modes |-> exec_modes]

EntryPointsOf_MutIgnoreRefAll(i, c, declr) ==
    {EntryPoint(declr.name, declr.exec_model,
                (IF c.combine_img_samplers THEN combine_img_samplers(vs) ELSE vs)
                    \o specs,
                collect_exec_modes(i, declr.func_id)) :
        vs \in collect_entry_point_vars(i, declr.func_id),
        specs \in collect_entry_point_specs(i)}

\* Every EntryPoint the body of the loop of collect_entry_points may build
\* for one declaration.
EntryPointsOf(i, c, declr) ==
    {EntryPoint(declr.name, declr.exec_model,
                (IF c.combine_img_samplers THEN combine_img_samplers(vs) ELSE vs)
                    \o specs,
                collect_exec_modes(i, declr.func_id)) :
        vs \in (IF c.ref_all_rscs THEN {i.vars}
                ELSE collect_entry_point_vars(i, declr.func_id)),
        specs \in collect_entry_point_specs(i)}

RECURSIVE CollectFrom(_, _, _)
CollectFrom(i, c, k) ==
    IF k > Len(i.entry_point_declrs) THEN {<< >>}
    ELSE {<<e>> \o rest : e \in EntryPointsOf(i, c, i.entry_point_declrs[k]),
                          rest \in CollectFrom(i, c, k + 1)}

\* Whether the recursion of collect_fn_vars_impl fails to return for some
\* entry point (it is not entered with ref_all_rscs).
CollectOverflows(i, c) ==
    /\ ~c.ref_all_rscs
    /\ \E k \in DOMAIN i.entry_point_declrs :
          collect_fn_vars(i, i.entry_point_declrs[k].func_id).overflow

\* Every Vec<EntryPoint> collect_entry_points may return.
collect_entry_points(i, c) == CollectFrom(i, c, 1)

(***************************************************************************)
(* populate_names and populate_decos: one instruction each.                *)
(***************************************************************************)
populate_name(i, op) ==
    LET key == IF op.op = "OpName" THEN <<op.target_id, None>>
               ELSE <<op.target_id, Some(op.member_idx)>>
    IN  IF op.name = "" THEN Ok(i)
        ELSE IF key \in DOMAIN i.name_map THEN Err(i, "NAME_COLLISION")
        ELSE Ok([i EXCEPT !.name_map = MapPut(@, key, op.name)])

populate_deco(i, op) ==
    LET key == IF op.op = "OpDecorate" THEN <<op.target_id, None, op.deco>>
               ELSE <<op.target_id, Some(op.member_idx), op.deco>>
    IN  IF key \in DOMAIN i.deco_map THEN Err(i, "DECO_COLLISION")
        ELSE Ok([i EXCEPT !.deco_map = MapPut(@, key, op.params)])

(***************************************************************************)
(* reflect: the phases in the order of the logical layout of a module.     *)
(***************************************************************************)
ReflectConfigDefault ==
    [ref_all_rscs |-> FALSE, combine_img_samplers |-> FALSE, spec_values |-> EmptyMap]

RECURSIVE reflect_head(_, _, _)
\* reflect() over the instructions of a module in layout order (entry
\* points, names, decorations, definitions), up to the function bodies.
reflect_head(i, instrs, c) ==
    IF instrs = << >> THEN Ok(i)
    ELSE LET op == Head(instrs)
             r == CASE op.op = "OpEntryPoint" -> populate_entry_point(i, op)
                    [] op.op \in {"OpName", "OpMemberName"} -> populate_name(i, op)
                    [] op.op \in {"OpDecorate", "OpMemberDecorate"} -> populate_deco(i, op)
                    [] OTHER -> populate_one_def(i, op, c)
         IN  IF r.err # "OK" THEN r ELSE reflect_head(r.itm, Tail(instrs), c)

\* No second reflection and no loader at work.
NoSide ==
    /\ hasher = "none" /\ rerun = << >>
    /\ file = None /\ binary = None
    /\ stream = << >> /\ inspected = << >>

\* The variables of the pipeline when no module is being reflected.
Idle ==
    /\ cfg = ReflectConfigDefault
    /\ itm = ReflectIntermediateDefault
    /\ err = "OK"
    /\ entry_points = << >>
    /\ access_chain_map = EmptyMap
    /\ func_id = NoFunc
    /\ ingested = {}
    /\ body_log = {}

NoFusion == fuse_vars = << >> /\ fuse_out = << >> /\ fuse_out2 = << >>

\* reflect() stands in populate_defs after the instructions of head.
InDefs(head, c) ==
    /\ cfg = c
    /\ itm = reflect_head(ReflectIntermediateDefault, head, c).itm
    /\ err = "OK"
    /\ phase = "defs"
    /\ entry_points = << >>
    /\ access_chain_map = EmptyMap
    /\ func_id = NoFunc
    /\ ingested = {op \in Range(head) : IsDefOp(op)}
    /\ body_log = {}
    /\ NoFusion
    /\ NoSide

\* One iteration of the loop of populate_defs on the instruction op.  An
\* Error ends the reflection: the intermediate is dropped with it.
DefStep(op) ==
    /\ phase = "defs"
    /\ LET r == populate_one_def(itm, op, cfg)
       IN  /\ itm' = IF r.err = "OK" THEN r.itm ELSE itm
           /\ err' = r.err
           /\ phase' = IF r.err = "OK" THEN "defs" ELSE "failed"
    /\ ingested' = ingested \cup {op}
    /\ UNCHANGED <<cfg, entry_points, access_chain_map, func_id, body_log,
                   fuse_vars, fuse_out, fuse_out2, side>>

\* The opcodes with an arm in the match of populate_access.
WalkedOps ==
    {"OpFunction", "OpFunctionCall", "OpAccessChain", "OpFunctionEnd"}
    \cup LoadOps \cup StoreOps

\* One iteration of the loop of populate_access on the instruction op;
\* populate_defs has ended at the first instruction that is no definition.
BodyStep(op) ==
    /\ phase \in {"defs", "access"}
    /\ LET w == populate_access_one(Walk(itm, access_chain_map, func_id, "OK"), op)
       IN  /\ itm' = w.itm
           /\ access_chain_map' = w.access_chain_map
           /\ func_id' = w.func_id
           /\ err' = w.err
           /\ phase' = IF w.err = "OK" THEN "access" ELSE "failed"
    /\ body_log' = IF op.op \in WalkedOps
                    THEN body_log \cup {[frame |-> func_id, op |-> op]}
                    ELSE body_log
    /\ UNCHANGED <<cfg, entry_points, ingested, fuse_vars, fuse_out, fuse_out2, side>>

\* The positions of reflect() at which it reads the stream: before the
\* entry points, in the loop of a phase, or skipping to the names or to
\* the decorations.
ReadingPhases ==
    {"start", "entry_points", "execution_modes", "skip_names", "names",
     "skip_decos", "decos", "defs", "access"}

\* The end of the instruction stream: the loops of the remaining phases
\* end and collect_entry_points projects the tables.  A recursion of
\* collect_fn_vars_impl that does not return overflows the stack.
CollectEntryPoints ==
    /\ phase \in ReadingPhases
    /\ IF CollectOverflows(itm, cfg)
       THEN /\ phase' = "aborted"
            /\ entry_points' = entry_points
       ELSE /\ phase' = "done"
            /\ entry_points' \in collect_entry_points(itm, cfg)
    /\ UNCHANGED <<cfg, itm, err, access_chain_map, func_id, ingested, body_log,
                   fuse_vars, fuse_out, fuse_out2, side>>

(***************************************************************************)
(* Specification SpecFuse: combine_img_samplers applied to a list of       *)
(* variables, and applied again to its own result.                         *)
(***************************************************************************)
ScalarF32 == ScalarTy("Float", 4)
Img2D == ImageTy(Some(ScalarF32), [fmt |-> "Sampled"], "Image2D")
ImgDepth2D == ImageTy(Some(ScalarF32), [fmt |-> "Depth"], "Image2D")

\* The variables the lists are made of: samplers and sampled images at two
\* binding points and with two binding counts, and variables of other kinds.
FuseUniverse ==
    {DescriptorVar(Some("s0"), DescriptorBinding(0, 0), DescTy("Sampler"), SamplerTy, U32(1)),
     DescriptorVar(Some("s1"), DescriptorBinding(0, 0), DescTy("Sampler"), SamplerTy, U32(1)),
     DescriptorVar(Some("s2"), DescriptorBinding(0, 0), DescTy("Sampler"), SamplerTy, U32(2)),
     DescriptorVar(None, DescriptorBinding(0, 1), DescTy("Sampler"), SamplerTy, U32(1)),
     DescriptorVar(Some("t0"), DescriptorBinding(0, 0), DescTy("SampledImage"), Img2D, U32(1)),
     DescriptorVar(Some("t1"), DescriptorBinding(0, 0), DescTy("SampledImage"), ImgDepth2D, U32(1)),
     DescriptorVar(Some("t2"), DescriptorBinding(0, 0), DescTy("SampledImage"), Img2D, U32(2)),
     DescriptorVar(None, DescriptorBinding(0, 1), DescTy("SampledImage"), Img2D, U32(1)),
     DescriptorVar(Some("ubo"), DescriptorBinding(1, 0), DescTy("UniformBuffer"),
                   StructTy(Some("Ubo"), << >>), U32(1)),
     InputVar(Some("pos"), InterfaceLocation(0, 0), ScalarF32)}

InitFuse ==
    /\ Idle
    /\ NoSide
    /\ phase = "fuse0"
    /\ fuse_vars \in SeqsUpTo(FuseUniverse, MaxFuseLen)
    /\ fuse_out = << >>
    /\ fuse_out2 = << >>

FuseOnce ==
    /\ phase = "fuse0"
    /\ fuse_out' = combine_img_samplers(fuse_vars)
    /\ phase' = "fuse1"
    /\ UNCHANGED <<cfg, itm, err, entry_points, access_chain_map, func_id,
                   ingested, body_log, fuse_vars, fuse_out2, side>>

FuseTwice ==
    /\ phase = "fuse1"
    /\ fuse_out2' = combine_img_samplers(fuse_out)
    /\ phase' = "fuse2"
    /\ UNCHANGED <<cfg, itm, err, entry_points, access_chain_map, func_id,
                   ingested, body_log, fuse_vars, fuse_out, side>>

NextFuse == FuseOnce \/ FuseTwice

SpecFuse == InitFuse /\ [][NextFuse]_vars

Fused == phase \in {"fuse1", "fuse2"}

IsCombinedDesc(v) == v.var = "Descriptor" /\ v.desc_ty = DescTy("CombinedImageSampler")

\* The sampled images of vs at the binding point and with the binding count
\* of the sampler s, in list order.
ImagesOf(vs, s) ==
    LET Matches(v) == /\ IsSampledImageDesc(v)
                      /\ v.desc_bind = s.desc_bind
                      /\ v.nbind = s.nbind
    IN  SelectSeq(vs, Matches)

\* The combined image samplers that stand for the sampler s.
CombinedFor(vs, s) ==
    LET imgs == ImagesOf(vs, s)
    IN  [k \in DOMAIN imgs |->
            DescriptorVar(imgs[k].name, s.desc_bind, DescTy("CombinedImageSampler"),
                          SampledImageTy(imgs[k].ty), s.nbind)]

IsMatchedImage(vs, v) ==
    /\ IsSampledImageDesc(v)
    /\ \E k \in DOMAIN vs : /\ IsSamplerDesc(vs[k])
                            /\ vs[k].desc_bind = v.desc_bind
                            /\ vs[k].nbind = v.nbind

\* The list in which every sampler with at least one image is replaced.
FuseEverySampler(vs) ==
    Flatten([k \in DOMAIN vs |->
        IF IsSamplerDesc(vs[k]) /\ ImagesOf(vs, vs[k]) # << >>
        THEN CombinedFor(vs, vs[k])
        ELSE IF IsMatchedImage(vs, vs[k]) THEN << >> ELSE <<vs[k]>>])

\* The list in which, of the samplers of one binding point and binding
\* count, the first in list order is replaced.
FuseFirstSampler(vs) ==
    Flatten([k \in DOMAIN vs |->
        IF /\ IsSamplerDesc(vs[k])
           /\ ImagesOf(vs, vs[k]) # << >>
           /\ \A j \in 1 .. k - 1 :
                 ~(/\ IsSamplerDesc(vs[j])
                   /\ vs[j].desc_bind = vs[k].desc_bind
                   /\ vs[j].nbind = vs[k].nbind)
        THEN CombinedFor(vs, vs[k])
        ELSE IF IsMatchedImage(vs, vs[k]) THEN << >> ELSE <<vs[k]>>])

\* C3 as stated: fusion replaces every Sampler descriptor that has at least
\* one SampledImage descriptor at its (set, binding) and binding count by
\* one CombinedImageSampler per such image, of type SampledImage(image);
\* unmatched samplers and images and all other variables pass unchanged.
C3_EverySamplerReplaced ==
    Fused => SeqToBag(fuse_out) = SeqToBag(FuseEverySampler(fuse_vars))

\* C3 amended: of the samplers sharing a (set, binding) and binding count,
\* only the first in list order that has at least one SampledImage there is
\* replaced by one CombinedImageSampler per such image (the image's name,
\* the sampler's binding and count, type SampledImage(image)); the later
\* samplers of that key, unmatched samplers and images and all other
\* variables pass unchanged.
C3_FirstSamplerReplaced ==
    Fused => SeqToBag(fuse_out) = SeqToBag(FuseFirstSampler(fuse_vars))

\* Two samplers of one key and an image for them have been fused.
C3_Witness ==
    /\ Fused
    /\ \E j, k \in DOMAIN fuse_vars :
          /\ j < k
          /\ IsSamplerDesc(fuse_vars[j]) /\ IsSamplerDesc(fuse_vars[k])
          /\ fuse_vars[j].desc_bind = fuse_vars[k].desc_bind
          /\ fuse_vars[j].nbind = fuse_vars[k].nbind
          /\ ImagesOf(fuse_vars, fuse_vars[j]) # << >>
    /\ \E k \in DOMAIN fuse_out : IsCombinedDesc(fuse_out[k])

\* C4: fusion is idempotent: applied to its own output it returns the same
\* variables, compared as unordered contents.
C4_FusionIdempotent ==
    phase = "fuse2" => SeqToBag(fuse_out2) = SeqToBag(fuse_out)

\* The second application met a combined image sampler and a sampler that
\* was put back, and reordered them.
C4_Witness ==
    /\ phase = "fuse2"
    /\ \E k \in DOMAIN fuse_out : IsCombinedDesc(fuse_out[k])
    /\ fuse_out2 # fuse_out

BindingsOf(vs) == {vs[k].desc_bind : k \in {j \in DOMAIN vs : vs[j].var = "Descriptor"}}

\* C5: fusion preserves the descriptor (set, binding) pairs: each pair of
\* the input is a pair of the output and the output has no new pair.
C5_FusionKeepsBindings ==
    Fused => BindingsOf(fuse_out) = BindingsOf(fuse_vars)

\* A fusion that replaced a sampler and left an image of another binding.
C5_Witness ==
    /\ Fused
    /\ Cardinality(BindingsOf(fuse_vars)) >= 2
    /\ \E k \in DOMAIN fuse_out : IsCombinedDesc(fuse_out[k])
    /\ \E k \in DOMAIN fuse_out : IsSampledImageDesc(fuse_out[k])

(***************************************************************************)
(* Instructions, as the operand structs of the handlers read them.         *)
(***************************************************************************)
OpEntryPoint(exec_model, func, name) ==
    [op |-> "OpEntryPoint", exec_model |-> exec_model, func_id |-> func, name |-> name]
OpName(target_id, name) == [op |-> "OpName", target_id |-> target_id, name |-> name]
OpDecorate(target_id, deco, params) ==
    [op |-> "OpDecorate", target_id |-> target_id, deco |-> deco, params |-> params]
OpMemberDecorate(target_id, member_idx, deco, params) ==
    [op |-> "OpMemberDecorate", target_id |-> target_id, member_idx |-> member_idx,
     deco |-> deco, params |-> params]
OpTypeInt(ty_id, nbit, is_signed) ==
    [op |-> "OpTypeInt", ty_id |-> ty_id, nbyte |-> nbit, is_signed |-> is_signed]
OpTypeFloat(ty_id, nbit) == [op |-> "OpTypeFloat", ty_id |-> ty_id, nbyte |-> nbit]
OpTypeImage(ty_id, scalar_ty_id, dim, is_depth, is_sampled) ==
    [op |-> "OpTypeImage", ty_id |-> ty_id, scalar_ty_id |-> scalar_ty_id, dim |-> dim,
     is_depth |-> is_depth, is_array |-> FALSE, is_multisampled |-> FALSE,
     is_sampled |-> is_sampled, color_fmt |-> "Rgba8"]
OpTypeSampler(ty_id) == [op |-> "OpTypeSampler", ty_id |-> ty_id]
OpTypeSampledImage(ty_id, img_ty_id) ==
    [op |-> "OpTypeSampledImage", ty_id |-> ty_id, img_ty_id |-> img_ty_id]
OpTypeAccelerationStructureKHR(ty_id) ==
    [op |-> "OpTypeAccelerationStructureKHR", ty_id |-> ty_id]
OpTypeStruct(ty_id, member_ty_ids) ==
    [op |-> "OpTypeStruct", ty_id |-> ty_id, member_ty_ids |-> member_ty_ids]
OpTypeArray(ty_id, proto_ty_id, nrepeat_const_id) ==
    [op |-> "OpTypeArray", ty_id |-> ty_id, proto_ty_id |-> proto_ty_id,
     nrepeat_const_id |-> nrepeat_const_id]
OpTypeRuntimeArray(ty_id, proto_ty_id) ==
    [op |-> "OpTypeRuntimeArray", ty_id |-> ty_id, proto_ty_id |-> proto_ty_id]
OpTypePointer(ty_id, target_ty_id) ==
    [op |-> "OpTypePointer", ty_id |-> ty_id, target_ty_id |-> target_ty_id]
OpConstant(ty_id, const_id, value) ==
    [op |-> "OpConstant", ty_id |-> ty_id, const_id |-> const_id, value |-> value]
OpSpecConstant(ty_id, const_id, value) ==
    [op |-> "OpSpecConstant", ty_id |-> ty_id, const_id |-> const_id, value |-> value]
OpSpecConstantOp(spec_const_id, opcode, a_id, b_id) ==
    [op |-> "OpSpecConstantOp", spec_const_id |-> spec_const_id, opcode |-> opcode,
     a_id |-> a_id, b_id |-> b_id]
OpVariable(ty_id, var_id, store_cls) ==
    [op |-> "OpVariable", ty_id |-> ty_id, var_id |-> var_id, store_cls |-> store_cls]

(***************************************************************************)
(* Specification SpecVar: populate_one_var on variables of every storage   *)
(* class and pointee shape, under every combination of the decorations it  *)
(* reads, and the projection of the registered variables.                  *)
(***************************************************************************)
\* Number of OpVariable instructions of a module.
MaxVars == 1

\* Decorations every module of the specification has: on the variable
\* %200, and the Offset of the member of the struct %21.
FixedDecos ==
    <<OpDecorate(200, "DescriptorSet", <<1>>),
      OpDecorate(200, "Binding", <<2>>),
      OpDecorate(200, "Location", <<5>>),
      OpMemberDecorate(21, 0, "Offset", <<0>>)>>

\* Decorations a module has or has not.
OptDecos ==
    <<OpDecorate(200, "NonWritable", << >>),
      OpDecorate(200, "NonReadable", << >>),
      OpDecorate(200, "InputAttachmentIndex", <<3>>),
      OpDecorate(21, "BufferBlock", << >>)>>

\* Scalars, images, sampler, sampled images, subpass data, acceleration
\* structure, a struct, a constant, arrays, and a pointer to each type.
TypePrelude ==
    <<OpTypeInt(1, 32, FALSE),
      OpTypeFloat(2, 32),
      OpTypeImage(10, 2, "Dim2D", 0, 2),
      OpTypeImage(11, 2, "DimBuffer", 0, 2),
      OpTypeImage(12, 2, "Dim2D", 0, 1),
      OpTypeImage(13, 2, "DimBuffer", 0, 1),
      OpTypeImage(14, 2, "Dim2D", 1, 1),
      OpTypeSampler(16),
      OpTypeSampledImage(17, 12),
      OpTypeSampledImage(18, 13),
      OpTypeImage(19, 2, "DimSubpassData", 0, 2),
      OpTypeAccelerationStructureKHR(20),
      OpTypeStruct(21, <<2>>),
      OpConstant(1, 30, <<U32(4)>>),
      OpTypeArray(40, 12, 30),
      OpTypeRuntimeArray(41, 16),
      OpTypeArray(42, 21, 30),
      OpTypeRuntimeArray(43, 21),
      OpTypeArray(44, 40, 30),
      OpTypeArray(45, 10, 30)>>

\* The types a variable may point to; %99 is the id of no type.
PointeeSeq == <<2, 10, 11, 12, 13, 14, 16, 17, 18, 19, 20, 21, 40, 41, 42, 43, 44, 45, 99>>
PointeeIds == Range(PointeeSeq)

PointerPrelude == [k \in DOMAIN PointeeSeq |-> OpTypePointer(100 + PointeeSeq[k], PointeeSeq[k])]

StoreClasses ==
    {"Input", "Output", "PushConstant", "Uniform", "StorageBuffer", "UniformConstant",
     "Function"}

VarHead(mask) ==
    <<OpEntryPoint("Fragment", 1, "main"), OpName(200, "u_var"), OpName(21, "Block")>>
    \o FixedDecos
    \o Flatten([k \in DOMAIN OptDecos |-> IF mask[k] THEN <<OptDecos[k]>> ELSE << >>])
    \o TypePrelude \o PointerPrelude

InitVar ==
    \E mask \in [DOMAIN OptDecos -> BOOLEAN] :
        InDefs(VarHead(mask), [ReflectConfigDefault EXCEPT !.ref_all_rscs = TRUE])

VarOps == {op \in ingested : op.op = "OpVariable"}

\* An OpVariable of the next variable id; its type operand is a pointer of
\* the prelude or, with %2, no pointer.
PopulateOneVar ==
    /\ Cardinality(VarOps) < MaxVars
    /\ \E ty_id \in {100 + id : id \in PointeeIds} \cup {2}, store_cls \in StoreClasses :
          DefStep(OpVariable(ty_id, 200 + Cardinality(VarOps), store_cls))

NextVar == PopulateOneVar \/ CollectEntryPoints

SpecVar == InitVar /\ [][NextVar]_vars

(***************************************************************************)
(* What a module says of a variable, read from its instructions.           *)
(***************************************************************************)
\* The instruction that defines the pointer type of the variable.
HasPointer(op) == \E d \in ingested : d.op = "OpTypePointer" /\ d.ty_id = op.ty_id
PointeeId(op) ==
    (CHOOSE d \in ingested : d.op = "OpTypePointer" /\ d.ty_id = op.ty_id).target_ty_id
\* The variable points to a type the reflection has realised.
HasPointee(op) == HasPointer(op) /\ PointeeId(op) \in DOMAIN itm.ty_map

IsArrayId(id) ==
    \E d \in ingested : d.op \in {"OpTypeArray", "OpTypeRuntimeArray"} /\ d.ty_id = id
ArrayDef(id) ==
    CHOOSE d \in ingested : d.op \in {"OpTypeArray", "OpTypeRuntimeArray"} /\ d.ty_id = id
\* The pointee after stripping one outer array: its id, its type.
StrippedId(op) ==
    IF IsArrayId(PointeeId(op)) THEN ArrayDef(PointeeId(op)).proto_ty_id
    ELSE PointeeId(op)
StrippedTy(op) == itm.ty_map[StrippedId(op)]

Decorated(id, deco) == <<id, None, deco>> \in DOMAIN itm.deco_map
BothAccessDecos(op) ==
    Decorated(op.var_id, "NonWritable") /\ Decorated(op.var_id, "NonReadable")
\* The access mode of a variable that has not both decorations.
AccessMode(op) ==
    IF Decorated(op.var_id, "NonWritable") THEN "ReadOnly"
    ELSE IF Decorated(op.var_id, "NonReadable") THEN "WriteOnly"
    ELSE "ReadWrite"

Registered(op) == op.var_id \in DOMAIN itm.var_map
RegisteredVar(op) == itm.vars[itm.var_map[op.var_id] + 1]
\* The reflection ended with the Error e at the variable.
FailedWith(op, e) == err = e /\ phase = "failed" /\ ~Registered(op)

\* The descriptor type of a UniformConstant variable with the stripped
\* pointee T, or the Error of its reflection.
UniformConstantRow(op, T) ==
    CASE T.kind = "Image" /\ T.unit_fmt.fmt = "Color" ->
            IF BothAccessDecos(op) THEN [fails |-> "ACCESS_CONFLICT"]
            ELSE [desc_ty |-> DescTyAccess(IF T.arng = "ImageBuffer"
                                           THEN "StorageTexelBuffer"
                                           ELSE "StorageImage", AccessMode(op))]
      [] T.kind = "Image" /\ T.unit_fmt.fmt = "Sampled" ->
            [desc_ty |-> DescTy(IF T.arng = "ImageBuffer" THEN "UniformTexelBuffer"
                                ELSE "SampledImage")]
      [] T.kind = "Image" /\ T.unit_fmt.fmt = "Depth" -> [desc_ty |-> DescTy("SampledImage")]
      [] T.kind = "Sampler" -> [desc_ty |-> DescTy("Sampler")]
      [] T.kind = "SampledImage" ->
            [desc_ty |-> DescTy(IF T.img_ty.arng = "ImageBuffer" THEN "UniformTexelBuffer"
                                ELSE "CombinedImageSampler")]
      [] T.kind = "SubpassData" ->
            IF Decorated(op.var_id, "InputAttachmentIndex")
            THEN [desc_ty |-> InputAttachment(
                                 itm.deco_map[<<op.var_id, None, "InputAttachmentIndex">>][1])]
            ELSE [fails |-> "MISSING_DECO"]
      [] T.kind = "AccelStruct" -> [desc_ty |-> DescTy("AccelStruct")]
      [] OTHER -> [fails |-> "UNSUPPORTED_TY"]

\* C7: a UniformConstant variable whose pointee, after stripping one outer
\* array, is T has the descriptor type the table gives for T and the
\* decorations of the variable (Image/Color: StorageTexelBuffer(access) for
\* ImageBuffer, else StorageImage(access); Image/Sampled: UniformTexelBuffer
\* for ImageBuffer, else SampledImage; Image/Depth: SampledImage; Sampler:
\* Sampler; SampledImage: UniformTexelBuffer for ImageBuffer, else
\* CombinedImageSampler; SubpassData: InputAttachment(InputAttachmentIndex);
\* AccelStruct: AccelStruct), and any other T fails with UNSUPPORTED_TY.  A
\* Color image with both NonWritable and NonReadable fails with
\* ACCESS_CONFLICT, subpass data without the index with MISSING_DECO.
C7_UniformConstantTable ==
    \A op \in VarOps :
        op.store_cls = "UniformConstant" /\ HasPointee(op) =>
            LET row == UniformConstantRow(op, StrippedTy(op))
            IN  IF "fails" \in DOMAIN row THEN FailedWith(op, row.fails)
                ELSE /\ Registered(op)
                     /\ RegisteredVar(op).var = "Descriptor"
                     /\ RegisteredVar(op).desc_ty = row.desc_ty

\* An array of storage images was classified, and so was an array of
\* arrays rejected in another run; this is the former.
C7_Witness ==
    \E op \in VarOps :
        /\ op.store_cls = "UniformConstant" /\ HasPointee(op)
        /\ IsArrayId(PointeeId(op))
        /\ Registered(op)
        /\ RegisteredVar(op).desc_ty = DescTyAccess("StorageImage", "WriteOnly")

\* C8: a Uniform variable is StorageBuffer(access) when the pointee after
\* stripping a possible outer array carries BufferBlock and UniformBuffer
\* otherwise, for the block struct itself and for an array of such structs.
C8_BufferBlockOfStrippedPointee ==
    \A op \in VarOps :
        op.store_cls = "Uniform" /\ HasPointee(op) /\ Registered(op) =>
            RegisteredVar(op).desc_ty =
                IF Decorated(StrippedId(op), "BufferBlock")
                THEN DescTyAccess("StorageBuffer", AccessMode(op))
                ELSE DescTy("UniformBuffer")

\* The variables that are storage buffers, storage images or storage texel
\* buffers by their storage class, block decoration and image format.
IsStorageVar(op) ==
    /\ HasPointee(op)
    /\ \/ op.store_cls = "StorageBuffer"
       \/ op.store_cls = "Uniform" /\ Decorated(StrippedId(op), "BufferBlock")
       \/ /\ op.store_cls = "UniformConstant"
          /\ StrippedTy(op).kind = "Image"
          /\ StrippedTy(op).unit_fmt.fmt = "Color"

StorageDescTys(access) ==
    {DescTyAccess(d, access) : d \in {"StorageBuffer", "StorageImage", "StorageTexelBuffer"}}

\* C9: every storage buffer, storage image and storage texel buffer has the
\* access mode ReadWrite with neither NonWritable nor NonReadable, ReadOnly
\* with only NonWritable, WriteOnly with only NonReadable, and with both the
\* reflection fails with ACCESS_CONFLICT.
C9_AccessModeOfStorage ==
    \A op \in VarOps :
        IsStorageVar(op) =>
            IF BothAccessDecos(op) THEN FailedWith(op, "ACCESS_CONFLICT")
            ELSE /\ Registered(op)
                 /\ RegisteredVar(op).desc_ty \in StorageDescTys(AccessMode(op))

\* The binding count and the type a descriptor variable is to report.
BindingCountAndType(op) ==
    IF IsArrayId(PointeeId(op))
    THEN LET d == ArrayDef(PointeeId(op))
             N == IF d.op = "OpTypeRuntimeArray" THEN U32(0)
                  ELSE (CHOOSE k \in ingested :
                            k.op = "OpConstant" /\ k.const_id = d.nrepeat_const_id).value[1]
         IN  [nbind |-> N, ty |-> itm.ty_map[d.proto_ty_id]]
    ELSE [nbind |-> U32(1), ty |-> itm.ty_map[PointeeId(op)]]

\* C10: a descriptor variable whose pointee is an array of N elements of T'
\* is reported with binding count N and type T' (N = 0 for a runtime
\* array), and with any other pointee T with binding count 1 and type T.
C10_BindingCount ==
    \A op \in VarOps :
        HasPointee(op) /\ Registered(op) /\ RegisteredVar(op).var = "Descriptor" =>
            /\ RegisteredVar(op).nbind = BindingCountAndType(op).nbind
            /\ RegisteredVar(op).ty = BindingCountAndType(op).ty
            /\ phase = "done" =>
                  \A k \in DOMAIN entry_points :
                      \E j \in DOMAIN entry_points[k].vars :
                          /\ entry_points[k].vars[j] = RegisteredVar(op)
                          /\ entry_points[k].vars[j].nbind = BindingCountAndType(op).nbind
                          /\ entry_points[k].vars[j].ty = BindingCountAndType(op).ty

\* An entry point reports a variable that points to an array of 4 structs.
C10_Witness ==
    /\ phase = "done"
    /\ \E op \in VarOps :
          /\ HasPointee(op) /\ Registered(op)
          /\ IsArrayId(PointeeId(op))
          /\ StrippedTy(op).kind = "Struct"
          /\ \E k \in DOMAIN entry_points : \E j \in DOMAIN entry_points[k].vars :
                /\ entry_points[k].vars[j].var = "Descriptor"
                /\ entry_points[k].vars[j].nbind = U32(4)
                /\ entry_points[k].vars[j].ty = StrippedTy(op)

(***************************************************************************)
(* Specification SpecConst: a specialization constant, a constant, a       *)
(* SpecConstantOp over them and an array of that length, with and without  *)
(* a user-supplied value for the specialization constant.                  *)
(***************************************************************************)
\* Number of constant and array instructions of a module.
MaxConstInstrs == 4

ConstHead ==
    <<OpEntryPoint("GLCompute", 1, "main"),
      OpDecorate(20, "SpecId", <<7>>),
      OpTypeInt(1, 32, FALSE)>>

\* ReflectConfig::specialize(7, value), or no call of it.
SpecValues ==
    {EmptyMap}
    \cup {MapPut(EmptyMap, 7, value) :
            value \in {ConstantValue("U32", U32(10)),
                       ConstantValue("U32", <<65535, 65535>>),
                       ConstantValue("I32", <<65535, 65533>>),
                       ConstantValue("Bool", TRUE)}}

InitConst ==
    \E spec_values \in SpecValues :
        InDefs(ConstHead, [ReflectConfigDefault EXCEPT !.spec_values = spec_values])

\* The id an instruction defines.
ResultId(op) ==
    CASE op.op \in {"OpConstant", "OpSpecConstant"} -> op.const_id
      [] op.op = "OpSpecConstantOp" -> op.spec_const_id
      [] OTHER -> op.ty_id

\* The next instruction of the module defines a new id.
Fresh(op) ==
    /\ Cardinality(ingested \ Range(ConstHead)) < MaxConstInstrs
    /\ \A d \in ingested : ResultId(d) # ResultId(op)

PopulateOneSpecConst ==
    \E op \in {OpSpecConstant(1, 20, <<value>>) : value \in {U32(4), U32(0)}}
              \cup {OpSpecConstantOp(23, opcode, a_id, b_id) :
                        opcode \in {"OpIAdd", "OpISub", "OpIMul", "OpQuantizeToF16"},
                        a_id \in {20, 22}, b_id \in {20, 22}} :
        Fresh(op) /\ DefStep(op)

PopulateOneConst ==
    \E op \in {OpConstant(1, 22, <<value>>) : value \in {U32(3), <<65535, 65534>>}} :
        Fresh(op) /\ DefStep(op)

PopulateOneTy ==
    \E op \in {OpTypeArray(30, 1, 23)} : Fresh(op) /\ DefStep(op)

NextConst ==
    PopulateOneSpecConst \/ PopulateOneConst \/ PopulateOneTy \/ CollectEntryPoints

SpecConst == InitConst /\ [][NextConst]_vars


SpecIdOf(const_id) == itm.deco_map[<<const_id, None, "SpecId">>][1]

\* The value a constant of the module stands for under the configuration.
ValueOf(const_id) ==
    LET k == CHOOSE d \in ingested :
                 d.op \in {"OpConstant", "OpSpecConstant"} /\ d.const_id = const_id
    IN  IF k.op = "OpSpecConstant" /\ SpecIdOf(const_id) \in DOMAIN cfg.spec_values
        THEN WordToInt(cfg.spec_values[SpecIdOf(const_id)].bits)
        ELSE WordToInt(k.value[1])

\* The expression of a SpecConstantOp, folded in 32 bits.
Folded(s) ==
    IntToWord(CASE s.opcode = "OpIAdd" -> ValueOf(s.a_id) + ValueOf(s.b_id)
                [] s.opcode = "OpISub" -> ValueOf(s.a_id) - ValueOf(s.b_id)
                [] s.opcode = "OpIMul" -> ValueOf(s.a_id) * ValueOf(s.b_id))

HasSpecConstantVar(e, spec_id) ==
    \E j \in DOMAIN e.vars : e.vars[j].var = "SpecConstant" /\ e.vars[j].spec_id = spec_id

\* C6: a sized array whose length is a SpecConstantOp over a scalar
\* specialization constant has, with no override, the expression folded
\* over the default of the constant as repeat count, and the constant is
\* among the SpecConstant variables of every entry point; with
\* specialize(spec_id, v) the repeat count is the expression folded over v
\* and no SpecConstant variable of the constant is emitted.
C6_SpecConstantFolding ==
    phase = "done" =>
        /\ \A d \in ingested, s \in ingested :
              /\ d.op = "OpTypeArray" /\ s.op = "OpSpecConstantOp"
              /\ d.nrepeat_const_id = s.spec_const_id
              => /\ d.ty_id \in DOMAIN itm.ty_map
                 /\ itm.ty_map[d.ty_id].nrepeat = Some(Folded(s))
        /\ \A k \in ingested :
              k.op = "OpSpecConstant" =>
                  \A e \in DOMAIN entry_points :
                      HasSpecConstantVar(entry_points[e], SpecIdOf(k.const_id))
                          <=> SpecIdOf(k.const_id) \notin DOMAIN cfg.spec_values

\* uint x[A + 3] with A of spec id 7 and default 4, under specialize(7, 10):
\* 13 elements and no SpecConstant variable.
C6_Witness ==
    /\ phase = "done"
    /\ cfg.spec_values = MapPut(EmptyMap, 7, ConstantValue("U32", U32(10)))
    /\ OpSpecConstant(1, 20, <<U32(4)>>) \in ingested
    /\ OpSpecConstantOp(23, "OpIAdd", 20, 22) \in ingested
    /\ 30 \in DOMAIN itm.ty_map
    /\ itm.ty_map[30].nrepeat = Some(U32(13))
    /\ \A e \in DOMAIN entry_points : ~HasSpecConstantVar(entry_points[e], 7)

\* C25: a SpecConstantOp IAdd, ISub or IMul over 32-bit operands a and b
\* registers a + b, a - b or a * b modulo 2^32 as an unsigned constant, and
\* a signed operand enters the operation with its bit pattern unchanged.
C25_WrappingFoldKeepsBits ==
    phase # "failed" =>
        \A s \in ingested :
            s.op = "OpSpecConstantOp" /\ s.opcode \in {"OpIAdd", "OpISub", "OpIMul"}
            => /\ s.spec_const_id \in DOMAIN itm.const_map
               /\ itm.const_map[s.spec_const_id]
                     = ConstantIntermediate(ConstantValue("U32", Folded(s)), None)

\* A * B with A specialized to the i32 -3 and B the u32 0xFFFFFFFE: the
\* product of the two words wraps to 6.
C25_Witness ==
    /\ cfg.spec_values = MapPut(EmptyMap, 7, ConstantValue("I32", <<65535, 65533>>))
    /\ OpSpecConstant(1, 20, <<U32(4)>>) \in ingested
    /\ OpConstant(1, 22, <<<<65535, 65534>>>>) \in ingested
    /\ OpSpecConstantOp(23, "OpIMul", 20, 22) \in ingested
    /\ phase # "failed"
    /\ itm.const_map[20].value = ConstantValue("I32", <<65535, 65533>>)
    /\ itm.const_map[23].value = ConstantValue("U32", U32(6))

(***************************************************************************)
(* Specification SpecAccess: the function bodies of a module with two      *)
(* descriptor variables and two entry points, and the projection with and  *)
(* without ref_all_rscs.                                                   *)
(***************************************************************************)
\* Memory instructions and calls of a module.
MaxAccess == 1
MaxCalls == 1

\* The ids of the functions and of the access chains of a module, in the
\* order of their definition.
FuncIds == {1, 2}
ChainIds == {300, 301}

\* A storage image %200 at (0, 0) and a uniform block %201 at (0, 1).
AccessHead ==
    <<OpEntryPoint("Fragment", 1, "main"),
      OpEntryPoint("Vertex", 2, "alt"),
      OpName(200, "img"), OpName(201, "ubo"),
      OpDecorate(200, "Binding", <<0>>),
      OpDecorate(201, "Binding", <<1>>),
      OpMemberDecorate(21, 0, "Offset", <<0>>),
      OpTypeFloat(2, 32),
      OpTypeImage(10, 2, "Dim2D", 0, 2),
      OpTypeStruct(21, <<2>>),
      OpTypePointer(110, 10),
      OpTypePointer(121, 21),
      OpVariable(110, 200, "UniformConstant"),
      OpVariable(121, 201, "Uniform")>>

InitAccess ==
    \E ref_all_rscs \in BOOLEAN :
        InDefs(AccessHead, [ReflectConfigDefault EXCEPT !.ref_all_rscs = ref_all_rscs])

\* The pointers a body instruction may name: the variables of the module
\* and the access chains defined so far.
Pointers == {200, 201} \cup DOMAIN access_chain_map

MemEntries == {l \in body_log : l.op.op \in LoadOps \cup StoreOps}
CallEntries == {l \in body_log : l.op.op = "OpFunctionCall"}

\* OpFunction of the next function id, after the end of the function before.
Function ==
    /\ func_id = NoFunc
    /\ Cardinality(DOMAIN itm.func_map) + 1 \in FuncIds
    /\ BodyStep([op |-> "OpFunction", func_id |-> Cardinality(DOMAIN itm.func_map) + 1])

FunctionEnd ==
    /\ func_id # NoFunc
    /\ BodyStep([op |-> "OpFunctionEnd"])

FunctionCall ==
    /\ func_id # NoFunc
    /\ Cardinality(CallEntries) < MaxCalls
    /\ \E callee \in FuncIds :
          BodyStep([op |-> "OpFunctionCall", func_id |-> callee])

\* A load or an atomic operation; outside of a function it ends the
\* reflection with FUNC_NOT_FOUND.
Load ==
    /\ Cardinality(MemEntries) < MaxAccess
    /\ \E opcode \in {"OpLoad", "OpAtomicIAdd"}, var_id \in Pointers :
          BodyStep([op |-> opcode, var_id |-> var_id])

Store ==
    /\ Cardinality(MemEntries) < MaxAccess
    /\ \E var_id \in Pointers : BodyStep([op |-> "OpStore", var_id |-> var_id])

\* OpAccessChain with the next result id, on a variable or on a chain.
AccessChain ==
    /\ func_id # NoFunc
    /\ 300 + Cardinality(DOMAIN access_chain_map) \in ChainIds
    /\ \E accessed_var_id \in Pointers :
          BodyStep([op |-> "OpAccessChain",
                    var_id |-> 300 + Cardinality(DOMAIN access_chain_map),
                    accessed_var_id |-> accessed_var_id])

\* Any other instruction of a body.
OtherInstr ==
    /\ func_id # NoFunc
    /\ BodyStep([op |-> "OpLabel"])

NextAccess ==
    \/ Function \/ FunctionEnd \/ FunctionCall \/ Load \/ Store \/ AccessChain
    \/ OtherInstr \/ CollectEntryPoints

SpecAccess == InitAccess /\ [][NextAccess]_vars

RECURSIVE ReachableFrom(_, _)
\* The functions reachable from those of fs through at most n
\* OpFunctionCall edges.
ReachableFrom(fs, n) ==
    IF n = 0 THEN fs
    ELSE ReachableFrom(fs \cup {l.op.func_id : l \in {c \in CallEntries : c.frame \in fs}},
                       n - 1)

RECURSIVE BaseOf(_, _)
\* The variable a pointer leads to through at most n access chains.
BaseOf(ptr, n) ==
    LET chains == {l.op : l \in {c \in body_log : c.op.op = "OpAccessChain"}}
    IN  IF n = 0 \/ ~\E c \in chains : c.var_id = ptr THEN ptr
        ELSE BaseOf((CHOOSE c \in chains : c.var_id = ptr).accessed_var_id, n - 1)

\* The variables the functions reachable from func load, store or operate
\* on atomically, directly or through access chains.
AccessedFrom(func) ==
    {BaseOf(l.op.var_id, Cardinality(ChainIds)) :
        l \in {m \in MemEntries : m.frame \in ReachableFrom({func}, Cardinality(FuncIds))}}

AccessedBindings(func) ==
    {RegisteredVar(op).desc_bind :
        op \in {v \in VarOps : /\ v.var_id \in AccessedFrom(func)
                               /\ Registered(v)
                               /\ RegisteredVar(v).var = "Descriptor"}}

\* C1: with reference-all disabled, the (set, binding) pairs of the
\* Descriptor variables of the record of every entry point are the bindings
\* of the registered descriptor variables that a load, store or atomic
\* instruction accesses, directly or through an access chain, in the entry
\* function or a function reachable from it through OpFunctionCall edges.
C1_BindingsAreTheAccessed ==
    phase = "done" /\ ~cfg.ref_all_rscs =>
        \A k \in DOMAIN entry_points :
            BindingsOf(entry_points[k].vars)
                = AccessedBindings(itm.entry_point_declrs[k].func_id)

DescriptorsOf(vs) == {vs[j] : j \in {k \in DOMAIN vs : vs[k].var = "Descriptor"}}

\* C2: with reference-all enabled and fusion disabled, the descriptor
\* variables of the record of every entry point are all the descriptor
\* variables registered in the module, accessed or not.
C2_ReferenceAll ==
    phase = "done" /\ cfg.ref_all_rscs /\ ~cfg.combine_img_samplers =>
        \A k \in DOMAIN entry_points :
            DescriptorsOf(entry_points[k].vars)
                = {RegisteredVar(op) :
                      op \in {v \in VarOps : /\ Registered(v)
                                             /\ RegisteredVar(v).var = "Descriptor"}}

\* The records of a module whose only function accesses one variable hold
\* the two descriptors.
C2_Witness ==
    /\ phase = "done" /\ cfg.ref_all_rscs /\ ~cfg.combine_img_samplers
    /\ DOMAIN itm.func_map = {1}
    /\ AccessedFrom(1) = {201}
    /\ Len(entry_points) = 2
    /\ \A k \in DOMAIN entry_points : Cardinality(DescriptorsOf(entry_points[k].vars)) = 2

\* The memory instructions whose pointer operand is the result of an
\* OpAccessChain of the module.
ChainedEntries ==
    {l \in MemEntries :
        \E c \in body_log : c.op.op = "OpAccessChain" /\ c.op.var_id = l.op.var_id}

\* C20: a load, store or atomic instruction whose pointer operand is the
\* result of an OpAccessChain adds the global variable at the base of the
\* chain to the accessed variables of the current function, also when the
\* base operand of the chain is the result of another access chain.
C20_ChainBaseAccessed ==
    phase # "failed" =>
        \A l \in ChainedEntries :
            BaseOf(l.op.var_id, Cardinality(ChainIds))
                \in itm.func_map[l.frame].accessed_vars

(***************************************************************************)
(* Specification SpecLoad: the loaders of the command-line tool            *)
(* (spirq-reflect/src/main.rs) and of the walk example                     *)
(* (examples/walk/main.rs), given the path of one file.                    *)
(***************************************************************************)
\* Length in bytes of the longest file.
MaxFileLen == 5

\* What a path leads to: whether it is a regular file, its extension,
\* whether File::open and read_to_end succeed, and its bytes.
Files ==
    [is_file : BOOLEAN, extension : {"spv", "txt"}, opens : BOOLEAN, reads : BOOLEAN,
     bytes : SeqsUpTo({3, 7}, MaxFileLen)]

\* buf.len() & 3 != 0
Misaligned(buf) == Len(buf) % 4 # 0

\* build_spirv_binary: buf is tested while it is still empty, and filled
\* afterwards; a file that does not open leaves it empty.
build_spirv_binary(f) ==
    IF ~f.is_file THEN None
    ELSE LET buf == << >>
         IN  IF f.opens
             THEN IF Misaligned(buf) THEN None
                  ELSE IF f.reads THEN Some(buf \o f.bytes) ELSE None
             ELSE Some(buf)

\* The closure of the second filter_map of collect_spirv_binaries: buf is
\* tested after read_to_end has filled it.
collect_spirv_binary(f) ==
    LET read_ok == f.opens /\ f.reads
        buf == IF read_ok THEN f.bytes ELSE << >>
    IN  IF ~f.is_file \/ f.extension # "spv" \/ ~read_ok \/ Misaligned(buf)
        THEN None ELSE Some(buf)

InitLoad ==
    /\ Idle
    /\ NoFusion
    /\ phase = "path"
    /\ hasher = "none"
    /\ rerun = << >>
    /\ stream = << >> /\ inspected = << >>
    /\ file \in Files
    /\ binary = None

\* main() of spirq-reflect loads the file of a path.
BuildSpirvBinary ==
    /\ phase = "path"
    /\ binary' = build_spirv_binary(file)
    /\ phase' = "cli"
    /\ UNCHANGED <<cfg, itm, err, entry_points, access_chain_map, func_id,
                   ingested, body_log, fuse_vars, fuse_out, fuse_out2,
                   hasher, rerun, file, stream, inspected>>

\* The walk example loads the file of a directory entry.
CollectSpirvBinaries ==
    /\ phase = "path"
    /\ binary' = collect_spirv_binary(file)
    /\ phase' = "walk"
    /\ UNCHANGED <<cfg, itm, err, entry_points, access_chain_map, func_id,
                   ingested, body_log, fuse_vars, fuse_out, fuse_out2,
                   hasher, rerun, file, stream, inspected>>

NextLoad == BuildSpirvBinary \/ CollectSpirvBinaries

SpecLoad == InitLoad /\ [][NextLoad]_vars

\* C17: a blob whose byte length is not a multiple of 4 is rejected:
\* build_spirv_binary returns no binary for a file of misaligned length.
C17_MisalignedRejected ==
    phase = "cli" /\ Len(file.bytes) % 4 # 0 => binary = None

(***************************************************************************)
(* reflect() reading a whole stream: the phases in the order of the        *)
(* logical layout, each consuming its run of instructions, with the        *)
(* instructions skipped before the entry points, the names and the         *)
(* decorations.                                                            *)
(***************************************************************************)
OpExecutionMode(func, execution_mode, params) ==
    [op |-> "OpExecutionMode", func_id |-> func, execution_mode |-> execution_mode,
     params |-> params]

\* An instruction whose payload is shorter than its typed view.
Truncated(opcode) == [op |-> opcode, truncated |-> TRUE]

\* OpX::try_from(instr)? of an instruction decoder
TryFromFails(op) == "truncated" \in DOMAIN op

ExecutionModeDeclaration(func, execution_mode) ==
    [func_id |-> func, execution_mode |-> execution_mode]

\* The execution modes without operand, with one and with three operands.
NoOperandModes ==
    {"SpacingEqual", "SpacingFractionalEven", "SpacingFractionalOdd", "VertexOrderCw",
     "VertexOrderCcw", "PixelCenterInteger", "OriginUpperLeft", "OriginLowerLeft",
     "EarlyFragmentTests", "PointMode", "Xfb", "DepthReplacing", "DepthGreater",
     "DepthLess", "DepthUnchanged", "InputPoints", "InputLines", "InputLinesAdjacency",
     "Triangles", "InputTrianglesAdjacency", "Quads", "Isolines", "OutputPoints",
     "OutputLineStrip", "OutputTriangleStrip", "Initializer", "Finalizer",
     "PostDepthCoverage", "StencilRefReplacingEXT"}
OneOperandModes ==
    {"Invocations", "OutputVertices", "SubgroupSize", "SubgroupsPerWorkgroup",
     "SubgroupsPerWorkgroupId"}
ThreeOperandModes == {"LocalSize", "LocalSizeId"}

\* One iteration of the loop of populate_execution_modes.  op.params[k]
\* beyond the operands of the instruction panics.
populate_execution_mode(i, op) ==
    LET m == op.execution_mode
        Declared(execution_mode) ==
            Ok([i EXCEPT !.execution_mode_declrs =
                    Append(@, ExecutionModeDeclaration(op.func_id, execution_mode))])
    IN  CASE m \in NoOperandModes -> Declared([mode |-> m])
          [] m \in OneOperandModes ->
                IF Len(op.params) < 1 THEN Err(i, "panic")
                ELSE Declared([mode |-> m, x |-> op.params[1]])
          [] m \in ThreeOperandModes ->
                IF Len(op.params) < 3 THEN Err(i, "panic")
                ELSE Declared([mode |-> m, x |-> op.params[1], y |-> op.params[2],
                               z |-> op.params[3]])
          [] OTHER -> Err(i, "UNSUPPORTED_EXEC_MODE")

\* NAME_RANGE.contains(&opcode)
IsNameOp(op) == op.op \in {"OpName", "OpMemberName"}

is_deco_op(op) ==
    op.op \in {"OpDecorate", "OpMemberDecorate", "OpDecorationGroup", "OpGroupDecorate",
               "OpGroupMemberDecorate"}

\* What reflect() standing at p does with the next instruction op: the
\* phase it stands in afterwards, and whether the handler of that phase
\* runs on op or op is skipped.
Dispatch(p, op) ==
    LET Run(to) == [to |-> to, run |-> TRUE]
        Skip(to) == [to |-> to, run |-> FALSE]
        Deco == IF op.op \in {"OpDecorate", "OpMemberDecorate"}
                THEN Run("decos") ELSE Skip("decos")
        Names == IF IsNameOp(op) THEN Run("names") ELSE Skip("skip_names")
        Decos == IF is_deco_op(op) THEN Deco ELSE Skip("skip_decos")
        Defs == IF IsDefOp(op) THEN Run("defs") ELSE Run("access")
    IN  CASE p = "start" ->
                IF op.op = "OpEntryPoint" THEN Run("entry_points") ELSE Skip("start")
          [] p = "entry_points" ->
                (CASE op.op = "OpEntryPoint" -> Run("entry_points")
                   [] op.op = "OpExecutionMode" -> Run("execution_modes")
                   [] OTHER -> Names)
          [] p = "execution_modes" ->
                IF op.op = "OpExecutionMode" THEN Run("execution_modes") ELSE Names
          [] p = "skip_names" -> Names
          [] p = "names" -> IF IsNameOp(op) THEN Run("names") ELSE Decos
          [] p = "skip_decos" -> Decos
          [] p = "decos" -> IF is_deco_op(op) THEN Deco ELSE Defs
          [] p = "defs" -> Defs
          [] OTHER -> Run("access")

\* The handler of the phase on op, as a state of the walk.
Handle(to, w, op, c) ==
    LET Of(r) == Walk(r.itm, w.access_chain_map, w.func_id, r.err)
        decoded == to # "access" \/ op.op \in WalkedOps
    IN  IF decoded /\ TryFromFails(op)
        THEN Walk(w.itm, w.access_chain_map, w.func_id, "INSTR_TOO_SHORT")
        ELSE CASE to = "entry_points" -> Of(populate_entry_point(w.itm, op))
               [] to = "execution_modes" -> Of(populate_execution_mode(w.itm, op))
               [] to = "names" -> Of(populate_name(w.itm, op))
               [] to = "decos" -> Of(populate_deco(w.itm, op))
               [] to = "defs" -> Of(populate_one_def(w.itm, op, c))
               [] OTHER -> populate_access_one(w, op)

PhaseAfter_MutGoOn(to, e) == IF e = "panic" THEN "aborted" ELSE to

\* Where reflect() stands after a handler: `?' returns the Error of the
\* handler, and a panic unwinds.
PhaseAfter(to, e) ==
    CASE e = "OK" -> to
      [] e = "panic" -> "aborted"
      [] OTHER -> "failed"

\* let mut notify_inspector = func_id != !0, set by the arm of OP_FUNCTION;
\* f is func_id before the match.
notify_inspector(f, op) == f # NoFunc \/ op.op = "OpFunction"

\* reflect() reads the next instruction op of the stream.
ReadInstr(op) ==
    /\ phase \in ReadingPhases
    /\ LET d == Dispatch(phase, op)
           w0 == Walk(itm, access_chain_map, func_id, "OK")
           w == IF d.run THEN Handle(d.to, w0, op, cfg) ELSE w0
       IN  /\ itm' = IF w.err = "OK" THEN w.itm ELSE itm
           /\ access_chain_map' = w.access_chain_map
           /\ func_id' = w.func_id
           /\ err' = IF w.err = "panic" THEN "OK" ELSE w.err
           /\ phase' = PhaseAfter(d.to, w.err)
           /\ ingested' = IF d.run /\ d.to = "defs" THEN ingested \cup {op} ELSE ingested
           /\ body_log' = IF d.to = "access" /\ op.op \in WalkedOps
                          THEN body_log \cup {[frame |-> func_id, op |-> op]}
                          ELSE body_log
           /\ inspected' = IF /\ d.to = "access" /\ w.err = "OK"
                               /\ notify_inspector(func_id, op)
                            THEN Append(inspected, op) ELSE inspected
    /\ stream' = Append(stream, op)
    /\ UNCHANGED <<cfg, entry_points, fuse_vars, fuse_out, fuse_out2,
                   hasher, rerun, file, binary>>

\* reflect() is called on a stream with the configuration c.
AtStart(c) ==
    /\ cfg = c
    /\ itm = ReflectIntermediateDefault
    /\ err = "OK"
    /\ phase = "start"
    /\ entry_points = << >>
    /\ access_chain_map = EmptyMap
    /\ func_id = NoFunc
    /\ ingested = {}
    /\ body_log = {}
    /\ NoFusion
    /\ NoSide

(***************************************************************************)
(* Specification SpecReflect: reflect() on every stream of up to           *)
(* MaxStream instructions of a module with two entry points, execution     *)
(* modes, a name, a decoration, a type and a function body.                *)
(***************************************************************************)
\* Number of instructions of the longest stream.
MaxStream == 5

ReflectInstrs ==
    {OpEntryPoint("Fragment", 1, "main"),
     OpEntryPoint("Vertex", 2, "alt"),
     Truncated("OpEntryPoint"),
     OpExecutionMode(1, "OriginUpperLeft", << >>),
     OpExecutionMode(1, "DepthReplacing", << >>),
     OpExecutionMode(2, "LocalSize", <<8, 8, 1>>),
     OpExecutionMode(1, "ContractionOff", << >>),
     OpName(200, "img"),
     OpDecorate(200, "Binding", <<1>>),
     OpTypeFloat(2, 32),
     [op |-> "OpFunction", func_id |-> 1],
     [op |-> "OpLoad", var_id |-> 200]}

InitReflect == AtStart(ReflectConfigDefault)

NextInstr ==
    /\ Len(stream) < MaxStream
    /\ \E op \in ReflectInstrs : ReadInstr(op)

NextReflect == NextInstr \/ CollectEntryPoints

SpecReflect == InitReflect /\ [][NextReflect]_vars

\* C14: an error raised in a phase of the ingestion ends the reflection:
\* reflect() returns that error and no entry-point record, nothing is read
\* after it, and entry points are projected only when every phase has
\* succeeded.
C14_ErrorsEndReflection ==
    [][/\ phase # "failed"
       /\ err' # "OK" => phase' = "failed" /\ entry_points' = << >>
       /\ phase' = "done" => err = "OK" /\ err' = "OK" /\ stream' = stream
       /\ entry_points' # << >> => phase' = "done"]_vars

\* The second definition of a type ended the reflection of a module whose
\* entry point, name and decoration had been ingested.
C14_Witness ==
    /\ phase = "failed" /\ err = "ID_COLLISION"
    /\ Len(itm.entry_point_declrs) = 1
    /\ entry_points = << >>
    /\ stream[Len(stream)] = OpTypeFloat(2, 32)

RECURSIVE RunOf(_, _, _)
\* The run of instructions of an opcode that the stream s has from k on.
RunOf(s, k, opcode) ==
    IF k \in DOMAIN s /\ s[k].op = opcode
    THEN <<s[k]>> \o RunOf(s, k + 1, opcode) ELSE << >>

\* The position of the first OpEntryPoint of the stream, or its end.
FirstEntryPoint ==
    IF \E k \in DOMAIN stream : stream[k].op = "OpEntryPoint"
    THEN CHOOSE k \in DOMAIN stream :
            /\ stream[k].op = "OpEntryPoint"
            /\ \A j \in 1 .. (k - 1) : stream[j].op # "OpEntryPoint"
    ELSE Len(stream) + 1

\* The entry points the module declares, and the execution modes that
\* follow them.
DeclaredEntryPoints == RunOf(stream, FirstEntryPoint, "OpEntryPoint")
DeclaredExecModes ==
    RunOf(stream, FirstEntryPoint + Len(DeclaredEntryPoints), "OpExecutionMode")

\* The execution mode an OpExecutionMode declares, with its operands.
ModeOf(op) ==
    CASE Len(op.params) = 0 -> [mode |-> op.execution_mode]
      [] Len(op.params) = 1 -> [mode |-> op.execution_mode, x |-> op.params[1]]
      [] OTHER -> [mode |-> op.execution_mode, x |-> op.params[1],
                   y |-> op.params[2], z |-> op.params[3]]

ModesOf(func) ==
    LET Mine(op) == op.func_id = func
        mine == SelectSeq(DeclaredExecModes, Mine)
    IN  [k \in DOMAIN mine |-> ModeOf(mine[k])]

\* C18: the result holds one record per recorded OpEntryPoint, in
\* declaration order, with the name and the execution model of the
\* declaration, and with the execution modes declared for its function id,
\* in declaration order.
C18_OneRecordPerEntryPoint ==
    phase = "done" =>
        /\ Len(entry_points) = Len(DeclaredEntryPoints)
        /\ \A k \in DOMAIN entry_points :
              /\ entry_points[k].name = DeclaredEntryPoints[k].name
              /\ entry_points[k].exec_model = DeclaredEntryPoints[k].exec_model
              /\ entry_points[k].exec_modes = ModesOf(DeclaredEntryPoints[k].func_id)

\* Two entry points; the first has two execution modes, declared around
\* the mode of the second.
C18_Witness ==
    /\ phase = "done"
    /\ Len(entry_points) = 2
    /\ entry_points[1].name = "alt" /\ entry_points[2].name = "main"
    /\ entry_points[2].exec_modes = <<[mode |-> "DepthReplacing"], [mode |-> "OriginUpperLeft"]>>
    /\ entry_points[1].exec_modes = <<[mode |-> "LocalSize", x |-> 8, y |-> 8, z |-> 1]>>

(***************************************************************************)
(* Specification SpecTy: populate_defs and populate_access on the          *)
(* definitions of a module with a struct of a float and a matrix, under    *)
(* every combination of the member decorations the struct arm reads, with  *)
(* definitions that repeat an id.                                          *)
(***************************************************************************)
OpTypeVector(ty_id, scalar_ty_id, nscalar) ==
    [op |-> "OpTypeVector", ty_id |-> ty_id, scalar_ty_id |-> scalar_ty_id,
     nscalar |-> nscalar]
OpTypeMatrix(ty_id, vec_ty_id, nvec) ==
    [op |-> "OpTypeMatrix", ty_id |-> ty_id, vec_ty_id |-> vec_ty_id, nvec |-> nvec]
OpTypeFunction(ty_id) == [op |-> "OpTypeFunction", ty_id |-> ty_id]
OpConstantTrue(const_id) == [op |-> "OpConstantTrue", const_id |-> const_id]
OpFunction(func) == [op |-> "OpFunction", func_id |-> func]

\* Number of instructions read after the head of the module.
MaxTyInstrs == 4

\* The Offset decorations a member of the struct %21 may carry, and the
\* MatrixStride its matrix member may carry.
MemberOffsets == {None, Some(0), Some(8)}
MatrixStrides == {None, Some(16)}

MemberDeco(idx, deco, v) ==
    IF v.some THEN <<OpMemberDecorate(21, idx, deco, <<v.val>>)>> ELSE << >>

\* Entry point, names, decorations, and the types of the members of %21.
TyHead(offset0, offset1, mat_stride) ==
    <<OpEntryPoint("Fragment", 1, "main"), OpName(200, "u_block"), OpName(21, "Block"),
      OpDecorate(200, "DescriptorSet", <<0>>),
      OpDecorate(200, "Binding", <<3>>),
      OpMemberDecorate(21, 1, "ColMajor", << >>)>>
    \o MemberDeco(0, "Offset", offset0)
    \o MemberDeco(1, "Offset", offset1)
    \o MemberDeco(1, "MatrixStride", mat_stride)
    \o <<OpTypeFloat(2, 32), OpTypeVector(3, 2, 4), OpTypeMatrix(4, 3, 4)>>

\* The struct, pointers, variables, and definitions of ids of other
\* definitions; %99 is the id of no type.
TyInstrs ==
    {OpTypeStruct(21, <<2, 4>>),
     OpTypePointer(121, 21),
     OpTypePointer(121, 2),
     OpVariable(121, 200, "Uniform"),
     OpVariable(121, 200, "Private"),
     OpTypeFloat(2, 32),
     OpTypeFunction(2),
     OpTypeVector(2, 99, 4),
     OpConstantTrue(30),
     OpFunction(1)}

InitTy ==
    \E offset0 \in MemberOffsets, offset1 \in MemberOffsets, mat_stride \in MatrixStrides :
        InDefs(TyHead(offset0, offset1, mat_stride),
               [ReflectConfigDefault EXCEPT !.ref_all_rscs = TRUE])

\* reflect() reads the next instruction after the head.
NextTyInstr ==
    /\ Len(stream) < MaxTyInstrs
    /\ \E op \in TyInstrs : ReadInstr(op)

NextTy == NextTyInstr \/ CollectEntryPoints

SpecTy == InitTy /\ [][NextTy]_vars

RECURSIVE Kinds(_)
\* The kinds of the nodes of the tree of a type.
Kinds(ty) ==
    {ty.kind} \cup
    (CASE ty.kind = "Struct" ->
             UNION {Kinds(ty.members[k].ty) : k \in DOMAIN ty.members}
       [] ty.kind = "Array" -> Kinds(ty.proto_ty)
       [] ty.kind = "Matrix" -> Kinds(ty.vec_ty)
       [] ty.kind = "Vector" -> Kinds(ty.scalar_ty)
       [] ty.kind = "SampledImage" -> Kinds(ty.img_ty)
       [] OTHER -> {})

\* The type of a variable of an entry point; a specialization constant
\* and a push constant carry a type as well.
VarTys(e) == {e.vars[k].ty : k \in DOMAIN e.vars}

\* C11: the type table holds only types of non-pointer type instructions,
\* none with a pointer node; a pointer type instruction fills the pointer
\* map alone; no type of a variable of an entry point has a pointer node.
C11_NoPointerInTypes ==
    /\ \A id \in DOMAIN itm.ty_map :
          /\ "Pointer" \notin Kinds(itm.ty_map[id])
          /\ \E d \in ingested :
                d.op \in TypeOps \ {"OpTypePointer"} /\ d.ty_id = id
    /\ DOMAIN itm.ptr_map = {d.ty_id : d \in {x \in ingested : x.op = "OpTypePointer"}}
    /\ \A k \in DOMAIN entry_points :
          \A ty \in VarTys(entry_points[k]) : "Pointer" \notin Kinds(ty)

\* The entry point has the variable of the struct behind the pointer %121.
C11_Witness ==
    /\ phase = "done"
    /\ 121 \in DOMAIN itm.ptr_map /\ 121 \notin DOMAIN itm.ty_map
    /\ \E k \in DOMAIN entry_points[1].vars :
          /\ entry_points[1].vars[k].ty.kind = "Struct"
          /\ Kinds(entry_points[1].vars[k].ty) = {"Struct", "Scalar", "Matrix", "Vector"}

RECURSIVE StructsOf(_)
\* The struct types of the tree of a type.
StructsOf(ty) ==
    CASE ty.kind = "Struct" ->
            {ty} \cup UNION {StructsOf(ty.members[k].ty) : k \in DOMAIN ty.members}
      [] ty.kind = "Array" -> StructsOf(ty.proto_ty)
      [] OTHER -> {}

\* The type of a member is a type, down to its leaves.
Resolved(ty) == Kinds(ty) \subseteq {"Scalar", "Vector", "Matrix", "Struct", "Array"}

\* C12: in a module that reflects without error, the offsets of the
\* members of every struct reachable from a variable of an entry point do
\* not decrease in declaration order, and every member has a resolved type.
C12_MemberOffsetsAscend ==
    phase = "done" =>
        \A k \in DOMAIN entry_points :
            \A ty \in VarTys(entry_points[k]) :
                \A st \in StructsOf(ty) :
                    /\ \A m \in DOMAIN st.members : Resolved(st.members[m].ty)
                    /\ \A m, n \in DOMAIN st.members :
                          m < n => st.members[m].offset <= st.members[n].offset

\* Every struct of an entry point has both members of %21, with resolved types.
MembersResolved ==
    phase = "done" =>
        \A k \in DOMAIN entry_points :
            \A ty \in VarTys(entry_points[k]) :
                \A st \in StructsOf(ty) :
                    /\ Len(st.members) = 2
                    /\ \A m \in DOMAIN st.members : Resolved(st.members[m].ty)

\* Some member of the struct the instruction d defines has no Offset.
LacksOffset(d) ==
    \E idx \in 0 .. (Len(d.member_ty_ids) - 1) :
        ~contains_deco(itm, d.ty_id, Some(idx), "Offset")

\* The reflection ended with an Error at the instruction op.
RaisedAt(op) == phase = "failed" /\ stream # << >> /\ stream[Len(stream)] = op

\* The variables of the module whose pointer type points to the type id.
VarsPointingTo(id) ==
    {v \in ingested : /\ v.op = "OpVariable"
                      /\ v.ty_id \in DOMAIN itm.ptr_map
                      /\ itm.ptr_map[v.ty_id] = id}

\* C15: a struct with a member without Offset is not registered, the
\* variables that point to it are not registered, and neither the struct
\* nor such a variable raises an error.
C15_NoOffsetSkipsSilently ==
    \A d \in ingested :
        d.op = "OpTypeStruct" /\ LacksOffset(d) =>
            /\ d.ty_id \notin DOMAIN itm.ty_map
            /\ ~RaisedAt(d)
            /\ \A v \in VarsPointingTo(d.ty_id) :
                  v.var_id \notin DOMAIN itm.var_map /\ ~RaisedAt(v)

\* The case of C15 in which the matrix member has its MatrixStride.
NoOffsetWithStrideSkipsSilently ==
    contains_deco(itm, 21, Some(1), "MatrixStride") => C15_NoOffsetSkipsSilently

\* The table in which an instruction defines its id, and that id.
TableOf(op) ==
    CASE op.op = "OpTypePointer" -> "ptr_map"
      [] op.op \in TypeOps -> "ty_map"
      [] op.op = "OpVariable" -> "var_map"
      [] op.op = "OpFunction" -> "func_map"
      [] OTHER -> "const_map"
DefinedId(op) ==
    CASE op.op = "OpVariable" -> op.var_id
      [] op.op = "OpFunction" -> op.func_id
      [] op.op \in TypeOps -> op.ty_id
      [] op.op = "OpSpecConstantOp" -> op.spec_const_id
      [] OTHER -> op.const_id

\* reflect() standing at p hands op to populate_defs as a definition, or
\* to populate_access as a function.
Defines(p, op) ==
    \/ IsDefOp(op) /\ Dispatch(p, op).to = "defs"
    \/ op.op = "OpFunction" /\ Dispatch(p, op).to = "access"

\* The intermediate i without the entry of id in the table t.
Without(i, t, id) == [i EXCEPT ![t] = [x \in DOMAIN @ \ {id} |-> @[x]]]

\* The handler of op registers the id of op when the table has no entry
\* of it: no operand fails and the definition is not skipped.
WouldRegister(p, op) ==
    LET t == TableOf(op)
        w == Handle(Dispatch(p, op).to,
                    Walk(Without(itm, t, DefinedId(op)), access_chain_map, func_id, "OK"),
                    op, cfg)
    IN  w.err = "OK" /\ DefinedId(op) \in DOMAIN w.itm[t]

\* The tables of ids only grow, and no entry of the type table, the
\* constant table, the pointer map or the variable map is replaced.
TablesKept ==
    /\ \A t \in {"ty_map", "const_map", "ptr_map", "var_map"} :
          \A id \in DOMAIN itm[t] : id \in DOMAIN itm'[t] /\ itm'[t][id] = itm[t][id]
    /\ DOMAIN itm.func_map \subseteq DOMAIN itm'.func_map

\* The step reads an instruction that defines an id present in its table.
Redefines ==
    /\ stream' # stream
    /\ Defines(phase, stream'[Len(stream')])
    /\ DefinedId(stream'[Len(stream')]) \in DOMAIN itm[TableOf(stream'[Len(stream')])]

\* C19 as stated: every definition of an id present in its table fails
\* with ID_COLLISION, and no entry of the tables is overwritten.
C19_RedefinitionCollides ==
    [][(Redefines => err' = "ID_COLLISION") /\ TablesKept]_vars

\* C19, amended: a definition of an id present in its table fails with
\* ID_COLLISION when it would register the id; otherwise it fails with
\* the error of an operand or is skipped and changes nothing; and no
\* entry of the tables is overwritten.
C19_RegisteringRedefinitionCollides ==
    [][/\ TablesKept
       /\ Redefines =>
             IF WouldRegister(phase, stream'[Len(stream')])
             THEN err' = "ID_COLLISION" /\ phase' = "failed"
             ELSE err' # "ID_COLLISION" /\ itm' = itm]_vars

\* The second OpVariable of %200 ended the reflection.
C19_Witness ==
    /\ phase = "failed" /\ err = "ID_COLLISION"
    /\ 200 \in DOMAIN itm.var_map
    /\ stream[Len(stream)] = OpVariable(121, 200, "Uniform")

(***************************************************************************)
(* Specification SpecSameId: two specialization constants decorated with   *)
(* the same SpecId 7 and one with SpecId 9, reflected with and without     *)
(* specialize of either id.                                                *)
(***************************************************************************)
\* Number of instructions read after the head of the module.
MaxSpecInstrs == 4

SameIdHead ==
    <<OpEntryPoint("GLCompute", 1, "main"),
      OpName(20, "a"), OpName(21, "b"), OpName(24, "c"),
      OpDecorate(20, "SpecId", <<7>>),
      OpDecorate(21, "SpecId", <<7>>),
      OpDecorate(24, "SpecId", <<9>>),
      OpTypeInt(1, 32, FALSE)>>

SameIdInstrs ==
    {OpSpecConstant(1, 20, <<U32(4)>>),
     OpSpecConstant(1, 21, <<U32(5)>>),
     [op |-> "OpSpecConstantTrue", const_id |-> 21],
     OpSpecConstant(1, 24, <<U32(6)>>),
     OpSpecConstantOp(23, "OpIAdd", 20, 21)}

\* No call of ReflectConfig::specialize, or one call of it.
SameIdSpecValues ==
    {EmptyMap}
    \cup {MapPut(EmptyMap, spec_id, ConstantValue("U32", U32(10))) : spec_id \in {7, 9}}

InitSameId ==
    \E spec_values \in SameIdSpecValues :
        InDefs(SameIdHead, [ReflectConfigDefault EXCEPT !.spec_values = spec_values])

NextSameIdInstr ==
    /\ Len(stream) < MaxSpecInstrs
    /\ \E op \in SameIdInstrs : ReadInstr(op)

NextSameId == NextSameIdInstr \/ CollectEntryPoints

SpecSameId == InitSameId /\ [][NextSameId]_vars

\* The specialization constants of the module with the SpecId spec_id.
SpecConstsOf(spec_id) ==
    {d \in ingested :
        /\ d.op \in {"OpSpecConstant", "OpSpecConstantTrue", "OpSpecConstantFalse"}
        /\ get_deco_u32(itm, d.const_id, "SpecId") = Some(spec_id)}

\* The SpecConstant variables of an entry point with the SpecId spec_id.
SpecVarsOf(e, spec_id) ==
    {j \in DOMAIN e.vars : e.vars[j].var = "SpecConstant" /\ e.vars[j].spec_id = spec_id}

\* C16: when two specialization constants of the module have the same
\* SpecId and the module is reflected with specialize of that id, no
\* entry point has a SpecConstant variable with that spec_id (hence at
\* most one variable for it).
C16_SharedSpecIdSpecialized ==
    phase = "done" =>
        \A spec_id \in DOMAIN cfg.spec_values :
            Cardinality(SpecConstsOf(spec_id)) >= 2 =>
                \A k \in DOMAIN entry_points :
                    /\ Cardinality(SpecVarsOf(entry_points[k], spec_id)) <= 1
                    /\ SpecVarsOf(entry_points[k], spec_id) = {}

\* Both constants of SpecId 7 and the constant of SpecId 9 are reflected
\* with specialize(7, 10): the entry point has the variable of 9 alone.
C16_Witness ==
    /\ phase = "done"
    /\ 7 \in DOMAIN cfg.spec_values
    /\ {d.const_id : d \in SpecConstsOf(7)} = {20, 21}
    /\ Len(entry_points[1].vars) = 1
    /\ SpecVarsOf(entry_points[1], 9) = {1}

\* The constants of the module with an outstanding spec id.
Outstanding == {id \in DOMAIN itm.const_map : itm.const_map[id].spec_id.some}

\* The entry point e has a SpecConstant variable of the constant id with
\* the name n.
HasSpecVarNamed(e, id, n) ==
    \E j \in DOMAIN e.vars :
        /\ e.vars[j].var = "SpecConstant"
        /\ e.vars[j].spec_id = itm.const_map[id].spec_id.val
        /\ e.vars[j].ty = ConstTy(itm.const_map[id].value)
        /\ e.vars[j].name = n

\* C27: every constant with an outstanding spec id is among the variables
\* of every entry point as a SpecConstant variable that carries the debug
\* name of the constant: one with a non-empty OpName is emitted with it.
C27_SpecConstantsNamed ==
    phase = "done" =>
        \A id \in Outstanding : \A k \in DOMAIN entry_points :
            HasSpecVarNamed(entry_points[k], id, get_name(itm, id))

\* Every constant with an outstanding spec id is among the variables of
\* every entry point, and without a name.
SpecConstantsUnnamed ==
    phase = "done" =>
        /\ \A id \in Outstanding : \A k \in DOMAIN entry_points :
              HasSpecVarNamed(entry_points[k], id, None)
        /\ \A k \in DOMAIN entry_points :
              Cardinality({j \in DOMAIN entry_points[k].vars :
                              entry_points[k].vars[j].var = "SpecConstant"})
                  = Cardinality(Outstanding)

(***************************************************************************)
(* Specification SpecTwice: reflect() called twice on one blob with one    *)
(* configuration.  The HashSet and HashMap of reflect.rs are built with    *)
(* the default FnvBuildHasher, which has no per-instance state: the order  *)
(* in which a set is iterated is a function of the set, the same in both   *)
(* calls.  `hasher' is that function, unknown but fixed.                   *)
(***************************************************************************)
\* Number of instructions of the function bodies of the blob.
MaxBody == 4

RECURSIVE Ascending(_)
\* The ids of a set, least first.
Ascending(S) ==
    IF S = {} THEN << >>
    ELSE LET least == CHOOSE x \in S : \A y \in S : x <= y
         IN  <<least>> \o Ascending(S \ {least})

Reverse(s) == [k \in DOMAIN s |-> s[Len(s) + 1 - k]]

\* The iteration orders a build may have.
Hashers == {"asc", "desc"}

BuildHasher_MutRandomState(run) ==
    IF run = 1 THEN hasher ELSE CHOOSE h \in Hashers : h # hasher

\* The hasher of the sets of the run-th call: FnvBuildHasher::default().
BuildHasher(run) == hasher

\* for x in set: the elements in the order of the hasher h.
Iterate(h, S) == IF h = "asc" THEN Ascending(S) ELSE Reverse(Ascending(S))

\* collect_entry_point_specs iterating const_map.values() in the order o
\* of the constant ids.
SpecsIn(i, o) ==
    LET spec_ids == SelectSeq(o, LAMBDA id : i.const_map[id].spec_id.some)
        SpecOf(id) ==
            LET constant == i.const_map[id]
            IN  SpecConstantVar(
                    get_var_name(i, [loc |-> "SpecConstant", at |-> constant.spec_id.val]),
                    constant.spec_id.val, ConstTy(constant.value))
    IN  [k \in DOMAIN spec_ids |-> SpecOf(spec_ids[k])]

\* collect_entry_points of the run-th call.
collect_entry_points_by(run, i, c) ==
    LET h == BuildHasher(run)
        EntryPointOf(declr) ==
            LET vs == IF c.ref_all_rscs THEN i.vars
                      ELSE VarsOf(i, Iterate(h, collect_fn_vars(i, declr.func_id).vars))
            IN  EntryPoint(declr.name, declr.exec_model,
                           (IF c.combine_img_samplers THEN combine_img_samplers(vs) ELSE vs)
                               \o SpecsIn(i, Iterate(h, DOMAIN i.const_map)),
                           collect_exec_modes(i, declr.func_id))
    IN  [k \in DOMAIN i.entry_point_declrs |-> EntryPointOf(i.entry_point_declrs[k])]

RECURSIVE reflect_from(_, _, _, _)
\* reflect() standing at p with the walk w over the rest of the stream:
\* where it stands at the end of the stream or after an Error.
reflect_from(p, w, instrs, c) ==
    IF instrs = << >> \/ p \notin ReadingPhases THEN [phase |-> p, w |-> w]
    ELSE LET op == Head(instrs)
             d == Dispatch(p, op)
             w1 == IF d.run THEN Handle(d.to, w, op, c) ELSE w
         IN  reflect_from(PhaseAfter(d.to, w1.err), w1, Tail(instrs), c)

\* Result<Vec<EntryPoint>> of the run-th call of reflect() on a blob.
reflect(run, instrs, c) ==
    LET r == reflect_from("start",
                 Walk(ReflectIntermediateDefault, EmptyMap, NoFunc, "OK"), instrs, c)
    IN  IF r.w.err # "OK" THEN [err |-> r.w.err, entry_points |-> << >>]
        ELSE [err |-> "OK", entry_points |-> collect_entry_points_by(run, r.w.itm, c)]

\* Two samplers and an image at one binding, and two specialization
\* constants.
TwiceHead ==
    <<OpEntryPoint("Fragment", 1, "main"),
      OpName(200, "s_a"), OpName(201, "s_b"), OpName(202, "t_img"),
      OpDecorate(200, "DescriptorSet", <<0>>), OpDecorate(200, "Binding", <<1>>),
      OpDecorate(201, "DescriptorSet", <<0>>), OpDecorate(201, "Binding", <<1>>),
      OpDecorate(202, "DescriptorSet", <<0>>), OpDecorate(202, "Binding", <<1>>),
      OpDecorate(20, "SpecId", <<7>>), OpDecorate(24, "SpecId", <<9>>),
      OpTypeInt(1, 32, FALSE),
      OpTypeFloat(2, 32),
      OpTypeImage(12, 2, "Dim2D", 0, 1),
      OpTypeSampler(16),
      OpTypePointer(112, 12),
      OpTypePointer(116, 16),
      OpVariable(116, 200, "UniformConstant"),
      OpVariable(116, 201, "UniformConstant"),
      OpVariable(112, 202, "UniformConstant"),
      OpSpecConstant(1, 20, <<U32(4)>>),
      OpSpecConstant(1, 24, <<U32(6)>>)>>

\* The instructions of the function bodies.
BodyInstrs ==
    {OpFunction(1)} \cup {[op |-> "OpLoad", var_id |-> id] : id \in {200, 201, 202}}

\* The first call stands in populate_defs after the head of the blob.
InitTwice ==
    /\ hasher \in Hashers
    /\ \E ref_all_rscs \in BOOLEAN, fuse \in BOOLEAN :
          cfg = [ReflectConfigDefault EXCEPT !.ref_all_rscs = ref_all_rscs,
                                             !.combine_img_samplers = fuse]
    /\ itm = reflect_head(ReflectIntermediateDefault, TwiceHead, cfg).itm
    /\ err = "OK"
    /\ phase = "defs"
    /\ entry_points = << >>
    /\ access_chain_map = EmptyMap
    /\ func_id = NoFunc
    /\ ingested = {op \in Range(TwiceHead) : IsDefOp(op)}
    /\ body_log = {}
    /\ NoFusion
    /\ rerun = << >> /\ file = None /\ binary = None
    /\ stream = << >> /\ inspected = << >>

\* The first call reads the next instruction of the blob.
NextBodyInstr ==
    /\ Len(stream) < MaxBody
    /\ \E op \in BodyInstrs : ReadInstr(op)

\* The end of the blob in the first call: collect_entry_points.
CollectFirst ==
    /\ phase \in ReadingPhases
    /\ phase' = "done"
    /\ entry_points' = collect_entry_points_by(1, itm, cfg)
    /\ UNCHANGED <<cfg, itm, err, access_chain_map, func_id, ingested, body_log,
                   fuse_vars, fuse_out, fuse_out2, side>>

\* The second call of reflect() on the blob, after the first has returned.
ReflectAgain ==
    /\ phase \in {"done", "failed"}
    /\ rerun = << >>
    /\ rerun' = <<reflect(2, TwiceHead \o stream, cfg)>>
    /\ UNCHANGED <<cfg, itm, err, phase, entry_points, access_chain_map, func_id,
                   ingested, body_log, fuse_vars, fuse_out, fuse_out2,
                   hasher, file, binary, stream, inspected>>

NextTwice == NextBodyInstr \/ CollectFirst \/ ReflectAgain

SpecTwice == InitTwice /\ [][NextTwice]_vars

\* The unordered contents of a list of entry points.
Unordered(eps) ==
    SeqToBag([k \in DOMAIN eps |->
                 [name |-> eps[k].name, exec_model |-> eps[k].exec_model,
                  exec_modes |-> eps[k].exec_modes, vars |-> SeqToBag(eps[k].vars)]])

MaxWalk == 5

WalkInstrs ==
    {OpFunction(1), OpFunction(2), OpFunction(NoFunc),
     [op |-> "OpFunctionEnd"],
     [op |-> "OpFunctionCall", func_id |-> 2],
     [op |-> "OpLoad", var_id |-> 200],
     [op |-> "OpStore", var_id |-> 201],
     [op |-> "OpAtomicIAdd", var_id |-> 202],
     [op |-> "OpLine"]}

InitWalk == InDefs(<<OpEntryPoint("Fragment", 1, "main")>>, ReflectConfigDefault)

NextWalkInstr ==
    /\ Len(stream) < MaxWalk
    /\ \E op \in WalkInstrs : ReadInstr(op)

NextWalk == NextWalkInstr \/ CollectEntryPoints

SpecWalk == InitWalk /\ [][NextWalk]_vars

RECURSIVE OpenFrame(_)
\* The function of the most recent OpFunction of s that no OpFunctionEnd
\* has closed, if there is one.
OpenFrame(s) ==
    IF s = << >> THEN None
    ELSE LET op == s[Len(s)]
         IN  CASE op.op = "OpFunction" -> Some(op.func_id)
               [] op.op = "OpFunctionEnd" -> None
               [] OTHER -> OpenFrame(SubSeq(s, 1, Len(s) - 1))

\* The step reads a call, a load, a store or an atomic.
ReadsAccess ==
    /\ stream' # stream
    /\ stream'[Len(stream')].op \in LoadOps \cup StoreOps \cup {"OpFunctionCall"}

\* The step attributes the instruction it reads to the function f alone.
AttributedTo(f) ==
    LET op == stream'[Len(stream')]
    IN  /\ err' = "OK"
        /\ f \in DOMAIN itm'.func_map
        /\ IF op.op = "OpFunctionCall"
           THEN op.func_id \in itm'.func_map[f].callees
           ELSE op.var_id \in itm'.func_map[f].accessed_vars
        /\ \A g \in DOMAIN itm.func_map \ {f} : itm'.func_map[g] = itm.func_map[g]

\* C21: a call, load, store or atomic is attributed to the function of
\* the most recent OpFunction that no OpFunctionEnd has closed, and fails
\* with FUNC_NOT_FOUND when there is none.
C21_AttributedToOpenFrame ==
    [][ReadsAccess =>
          IF OpenFrame(stream).some
          THEN AttributedTo(OpenFrame(stream).val)
          ELSE err' = "FUNC_NOT_FOUND" /\ phase' = "failed" /\ itm' = itm]_vars

\* C21 on the modules none of whose functions has the id !0.
AttributedToOpenFrameBelowMax ==
    [][ReadsAccess /\ NoFunc \notin DOMAIN itm.func_map =>
          IF OpenFrame(stream).some
          THEN AttributedTo(OpenFrame(stream).val)
          ELSE err' = "FUNC_NOT_FOUND" /\ phase' = "failed" /\ itm' = itm]_vars

\* The position of the first OpFunction of the stream, or its end.
FirstFunction ==
    IF \E k \in DOMAIN stream : stream[k].op = "OpFunction"
    THEN CHOOSE k \in DOMAIN stream :
            /\ stream[k].op = "OpFunction"
            /\ \A j \in 1 .. (k - 1) : stream[j].op # "OpFunction"
    ELSE Len(stream) + 1

\* C22: when no instruction has failed, the inspector has been called
\* once for each instruction from the first OpFunction on, in stream
\* order, and for no other instruction.
C22_InspectorSeesAllFromFirstFunction ==
    phase # "failed" => inspected = SubSeq(stream, FirstFunction, Len(stream))

\* Every instruction after the first OpFunction is an OpFunction or lies
\* in the frame of a function, and no function has the id !0.
WellFramed ==
    /\ NoFunc \notin DOMAIN itm.func_map
    /\ \A j \in (FirstFunction + 1) .. Len(stream) :
          stream[j].op = "OpFunction" \/ OpenFrame(SubSeq(stream, 1, j - 1)).some

\* C22 on the streams whose instructions lie in function frames.
InspectorSeesAllWellFramed ==
    phase # "failed" /\ WellFramed =>
        inspected = SubSeq(stream, FirstFunction, Len(stream))

(***************************************************************************)
(* Specification SpecModes: reflect() on the streams of a compute module   *)
(* that declares its local size with OpExecutionMode and with              *)
(* OpExecutionModeId.                                                      *)
(***************************************************************************)
\* Number of instructions of the longest stream.
MaxModes == 4

OpExecutionModeId(func, execution_mode, params) ==
    [op |-> "OpExecutionModeId", func_id |-> func, execution_mode |-> execution_mode,
     params |-> params]

ModeInstrs ==
    {OpEntryPoint("GLCompute", 1, "main"),
     OpExecutionMode(1, "LocalSize", <<8, 8, 1>>),
     OpExecutionMode(1, "SubgroupSize", <<32>>),
     OpExecutionModeId(1, "LocalSizeId", <<30, 31, 32>>),
     OpExecutionModeId(1, "SubgroupsPerWorkgroupId", <<33>>),
     OpName(200, "img")}

InitModes == AtStart(ReflectConfigDefault)

NextModeInstr ==
    /\ Len(stream) < MaxModes
    /\ \E op \in ModeInstrs : ReadInstr(op)

NextModes == NextModeInstr \/ CollectEntryPoints

SpecModes == InitModes /\ [][NextModes]_vars

RECURSIVE ModeRunOf(_, _)
\* The run of OpExecutionMode and OpExecutionModeId that s has from k on.
ModeRunOf(s, k) ==
    IF k \in DOMAIN s /\ s[k].op \in {"OpExecutionMode", "OpExecutionModeId"}
    THEN <<s[k]>> \o ModeRunOf(s, k + 1) ELSE << >>

\* The execution modes the module declares for a function with either
\* instruction, after its entry points.
AllModesOf(func) ==
    LET Mine(op) == op.func_id = func
        mine == SelectSeq(ModeRunOf(stream, FirstEntryPoint + Len(DeclaredEntryPoints)),
                          Mine)
    IN  [k \in DOMAIN mine |-> ModeOf(mine[k])]

\* C23: every OpExecutionMode and OpExecutionModeId that follows the
\* entry points yields an execution mode of the entry point of its
\* function, with its operands.
C23_ExecutionModeIdsConsumed ==
    phase = "done" =>
        \A k \in DOMAIN entry_points :
            entry_points[k].exec_modes = AllModesOf(DeclaredEntryPoints[k].func_id)

\* C23 on the modules without OpExecutionModeId.
ExecutionModesConsumed ==
    phase = "done" /\ (\A k \in DOMAIN stream : stream[k].op # "OpExecutionModeId") =>
        \A k \in DOMAIN entry_points :
            entry_points[k].exec_modes = AllModesOf(DeclaredEntryPoints[k].func_id)

(***************************************************************************)
(* Specification SpecIface: populate_one_var on Input and Output           *)
(* variables, with and without Location and Component on the variable      *)
(* %200, and with a registered or an unregistered pointee.                 *)
(***************************************************************************)
\* Number of OpVariable instructions of a module.
MaxIfaceVars == 2

\* The operand of a Location and of a Component decoration of %200, if
\* the module has the decoration.
Locations == {None, Some(0), Some(5)}
Components == {None, Some(0), Some(2)}

VarDeco(deco, v) == IF v.some THEN <<OpDecorate(200, deco, <<v.val>>)>> ELSE << >>

\* %99 is the id of no type.
IfaceHead(loc, comp) ==
    <<OpEntryPoint("Vertex", 1, "main"), OpName(200, "v_in")>>
    \o VarDeco("Location", loc) \o VarDeco("Component", comp)
    \o <<OpTypeFloat(2, 32), OpTypeVector(3, 2, 4),
          OpTypePointer(102, 2), OpTypePointer(103, 3), OpTypePointer(199, 99)>>

InitIface ==
    \E loc \in Locations, comp \in Components :
        InDefs(IfaceHead(loc, comp), [ReflectConfigDefault EXCEPT !.ref_all_rscs = TRUE])

\* An OpVariable of a variable id the module has not defined.
PopulateIfaceVar ==
    /\ Cardinality(VarOps) < MaxIfaceVars
    /\ \E ty_id \in {102, 103, 199}, var_id \in {200, 201},
          store_cls \in {"Input", "Output"} :
          /\ \A d \in VarOps : d.var_id # var_id
          /\ ReadInstr(OpVariable(ty_id, var_id, store_cls))

NextIface == PopulateIfaceVar \/ CollectEntryPoints

SpecIface == InitIface /\ [][NextIface]_vars

\* The operand of the decoration deco of the id, or dflt without it.
DecoOr(id, deco, dflt) ==
    IF Decorated(id, deco) THEN itm.deco_map[<<id, None, deco>>][1] ELSE dflt

\* The variable an Input or Output OpVariable with a Location stands for.
IfaceVar(op) ==
    LET location == InterfaceLocation(DecoOr(op.var_id, "Location", 0),
                                      DecoOr(op.var_id, "Component", 0))
        name == get_name(itm, op.var_id)
        ty == itm.ty_map[PointeeId(op)]
    IN  IF op.store_cls = "Input" THEN InputVar(name, location, ty)
        ELSE OutputVar(name, location, ty)

\* C24: an Input or Output variable with a registered pointee is
\* registered exactly when its id has a Location; its location is the
\* operand of Location with the operand of Component, or with 0 without
\* Component; without Location it is skipped and no error is raised.
C24_InterfaceVarsByLocation ==
    \A op \in VarOps :
        op.store_cls \in {"Input", "Output"} /\ HasPointee(op) =>
            /\ ~RaisedAt(op)
            /\ Registered(op) <=> Decorated(op.var_id, "Location")
            /\ Registered(op) => RegisteredVar(op) = IfaceVar(op)
            /\ phase = "done" =>
                  (Registered(op) <=>
                      \E k \in DOMAIN entry_points[1].vars :
                          entry_points[1].vars[k] = IfaceVar(op))

\* The output %200 at location 5, component 2, and %201 without Location.
C24_Witness ==
    /\ phase = "done"
    /\ OpVariable(103, 200, "Output") \in VarOps
    /\ \E op \in VarOps : op.var_id = 201 /\ HasPointee(op)
    /\ Len(entry_points[1].vars) = 1
    /\ entry_points[1].vars[1].var = "Output"
    /\ entry_points[1].vars[1].location = InterfaceLocation(5, 2)

(***************************************************************************)
(* Specification SpecFold: every SpecConstantOp of the opcodes the folder  *)
(* matches, and one it does not, over constants of the values 7, 0, the    *)
(* least i32, 0xFFFFFFFF and true, and over an id that is no constant.     *)
(***************************************************************************)
\* Number of SpecConstantOp instructions of a module.
MaxFold == 2

FoldHead ==
    <<OpEntryPoint("GLCompute", 1, "main"),
      OpTypeInt(1, 32, FALSE),
      OpConstant(1, 21, <<U32(7)>>),
      OpConstant(1, 22, <<U32(0)>>),
      OpConstant(1, 24, <<<<32768, 0>>>>),
      OpConstant(1, 25, <<<<65535, 65535>>>>),
      OpConstantTrue(26)>>

\* The result id is new (23) or that of a constant of the head (21); 29 is
\* the id of no constant.
FoldInstrs ==
    {OpSpecConstantOp(spec_const_id, opcode, a_id, b_id) :
        spec_const_id \in {23, 21},
        opcode \in FoldedOps \cup {"OpShiftRightArithmetic"},
        a_id \in {21, 22, 24, 25, 26, 29},
        b_id \in {21, 22, 24, 25, 26, 29}}

InitFold == InDefs(FoldHead, ReflectConfigDefault)

NextFoldInstr ==
    /\ Len(stream) < MaxFold
    /\ \E op \in FoldInstrs : ReadInstr(op)

NextFold == NextFoldInstr \/ CollectEntryPoints

SpecFold == InitFold /\ [][NextFold]_vars

\* The Errors of the folder.
FoldErrors ==
    {"UNSUPPORTED_SPEC", "SPEC_TY_MISMATCHED", "CONST_NOT_FOUND", "ID_COLLISION"}

\* The step folds the SpecConstantOp it reads: the constant of its result
\* id is registered by it, or reflect() returns one of the Errors.
FoldsOrFails ==
    LET op == stream'[Len(stream')]
    IN  \/ /\ phase' = "defs" /\ err' = "OK"
            /\ op.spec_const_id \notin DOMAIN itm.const_map
            /\ op.spec_const_id \in DOMAIN itm'.const_map
        \/ /\ phase' = "failed" /\ err' \in FoldErrors
            /\ itm' = itm

\* C26: for every SpecConstantOp and every pair of operand values the
\* folder registers a constant or returns a typed Error, a zero divisor of
\* UDiv, SDiv, UMod, SRem and SMod included.
C26_FolderTotal ==
    [][stream' # stream /\ stream'[Len(stream')].op = "OpSpecConstantOp"
       => FoldsOrFails]_vars

\* The divisor of the SpecConstantOp op is the constant 0.
ZeroDivisor(op) ==
    /\ op.opcode \in DividingOps
    /\ has_const(itm, op.a_id) /\ has_const(itm, op.b_id)
    /\ itm.const_map[op.a_id].value.tag \in {"I32", "U32"}
    /\ itm.const_map[op.b_id].value = ConstantValue("U32", U32(0))

\* Apart from a zero divisor the folder is total.
FolderTotalButZeroDivisor ==
    [][/\ stream' # stream /\ stream'[Len(stream')].op = "OpSpecConstantOp"
       /\ ~ZeroDivisor(stream'[Len(stream')])
       => FoldsOrFails]_vars

\* A division by the constant 0 unwinds out of reflect().
ZeroDivisorAborts ==
    [][stream' # stream /\ ZeroDivisor(stream'[Len(stream')])
       => phase' = "aborted"]_vars

(***************************************************************************)
(* Specification SpecCalls: the bodies of up to three functions that call  *)
(* one another, themselves, or a function that is never defined, with one  *)
(* load in one of them, projected for the entry point of function %1.      *)
(***************************************************************************)
\* Number of OpFunctionCall and of memory instructions of a module.
MaxCallInstrs == 3
MaxLoads == 1

\* The ids of the functions, in the order of their definition, and the ids
\* an OpFunctionCall may name.
CallFuncs == {1, 2, 3}
Callable == CallFuncs \cup {4}

\* A storage image %200 at (0, 0).
CallsHead ==
    <<OpEntryPoint("Fragment", 1, "main"),
      OpName(200, "img"),
      OpDecorate(200, "Binding", <<0>>),
      OpTypeFloat(2, 32),
      OpTypeImage(10, 2, "Dim2D", 0, 2),
      OpTypePointer(110, 10),
      OpVariable(110, 200, "UniformConstant")>>

InitCalls == InDefs(CallsHead, ReflectConfigDefault)

CountOf(ops) == Cardinality({k \in DOMAIN stream : stream[k].op \in ops})

\* OpFunction of the next function id, after the end of the function before.
BeginFunction ==
    /\ func_id = NoFunc
    /\ Cardinality(DOMAIN itm.func_map) + 1 \in CallFuncs
    /\ ReadInstr(OpFunction(Cardinality(DOMAIN itm.func_map) + 1))

EndFunction ==
    /\ func_id # NoFunc
    /\ ReadInstr([op |-> "OpFunctionEnd"])

CallFunction ==
    /\ func_id # NoFunc
    /\ CountOf({"OpFunctionCall"}) < MaxCallInstrs
    /\ \E callee \in Callable :
          ReadInstr([op |-> "OpFunctionCall", func_id |-> callee])

LoadImage ==
    /\ func_id # NoFunc
    /\ CountOf(LoadOps) < MaxLoads
    /\ ReadInstr([op |-> "OpLoad", var_id |-> 200])

NextCalls ==
    BeginFunction \/ EndFunction \/ CallFunction \/ LoadImage \/ CollectEntryPoints

SpecCalls == InitCalls /\ [][NextCalls]_vars

\* The call graph recorded in the function map: the callees of a function
\* (none for an id without a function), and the functions reached from
\* those of fs through at most n calls.
CalleesOf(f) ==
    IF f \in DOMAIN itm.func_map THEN itm.func_map[f].callees ELSE {}

RECURSIVE CalledFrom(_, _)
CalledFrom(fs, n) ==
    IF n = 0 THEN fs
    ELSE CalledFrom(fs \cup UNION {CalleesOf(f) : f \in fs}, n - 1)

\* The functions func reaches through one call or more, and whether the
\* graph below func has a cycle.
CalledBy(func) == CalledFrom(CalleesOf(func), Cardinality(Callable))
CyclicBelow(func) ==
    \E g \in {func} \cup CalledBy(func) : g \in CalledBy(g)

\* The callee g is reached from func along two different paths.
ManyPaths(func, g) ==
    \E x \in CalleesOf(func), y \in CalleesOf(func) :
        /\ x # y
        /\ g \in {x} \cup CalledBy(x)
        /\ g \in {y} \cup CalledBy(y)

\* The functions of the entry points.
EntryFuncs ==
    {itm.entry_point_declrs[k].func_id : k \in DOMAIN itm.entry_point_declrs}

\* C28: collecting the accessed variables of an entry point terminates
\* for every call graph recorded in the function map, a graph with a
\* cycle and a graph in which a callee is reached along many paths
\* included.
C28_CollectFnVarsTerminates ==
    \A func \in EntryFuncs : ~collect_fn_vars(itm, func).overflow

\* The collection returns exactly for the graphs without a cycle below the
\* entry function, and then with the variables of the functions reached.
CollectReturnsIffAcyclic ==
    \A func \in EntryFuncs :
        /\ collect_fn_vars(itm, func).overflow <=> CyclicBelow(func)
        /\ ~CyclicBelow(func) =>
              collect_fn_vars(itm, func).vars
                  = UNION {itm.func_map[g].accessed_vars :
                              g \in ({func} \cup CalledBy(func)) \cap DOMAIN itm.func_map}

\* The projection ends for a callee reached along two paths.
ManyPathsDone ==
    /\ phase = "done"
    /\ ManyPaths(1, 3)
    /\ 3 \in DOMAIN itm.func_map
    /\ ~CyclicBelow(1)

\* With a cycle below the entry function the projection never ends.
CycleNeverDone ==
    (\E func \in EntryFuncs : CyclicBelow(func)) => phase # "done"

(***************************************************************************)
(* Specification SpecNames: reflect() on the modules made of instructions  *)
(* of one module in their order, each instruction present or absent: the   *)
(* module with its debug names, without them, without decorations.         *)
(***************************************************************************)
\* A storage image %200 at binding 0, loaded by the entry function.
NamesModule ==
    <<OpEntryPoint("Fragment", 1, "main"),
      OpExecutionMode(1, "OriginUpperLeft", << >>),
      OpName(200, "img"),
      [op |-> "OpMemberName", target_id |-> 21, member_idx |-> 0, name |-> "m"],
      OpDecorate(200, "Binding", <<0>>),
      OpTypeFloat(2, 32),
      OpTypeImage(10, 2, "Dim2D", 0, 2),
      OpTypePointer(110, 10),
      OpVariable(110, 200, "UniformConstant"),
      OpFunction(1),
      [op |-> "OpLoad", var_id |-> 200],
      [op |-> "OpFunctionEnd"]>>

\* The place in the module of the instruction read last.
ReadUpTo ==
    IF stream = << >> THEN 0
    ELSE CHOOSE k \in DOMAIN NamesModule : NamesModule[k] = stream[Len(stream)]

InitNames ==
    \E ref_all_rscs \in BOOLEAN :
        AtStart([ReflectConfigDefault EXCEPT !.ref_all_rscs = ref_all_rscs])

\* The next instruction of the stream is a later instruction of the module.
NextNamesInstr ==
    \E k \in DOMAIN NamesModule : k > ReadUpTo /\ ReadInstr(NamesModule[k])

NextNames == NextNamesInstr \/ CollectEntryPoints

SpecNames == InitNames /\ [][NextNames]_vars

\* The stream s with the debug names of the module in their place.
WithNames(s) ==
    SelectSeq(NamesModule, LAMBDA op : IsNameOp(op) \/ op \in Range(s))

HasNoName(s) == \A k \in DOMAIN s : ~IsNameOp(s[k])

\* The entry points with the names of their variables absent.
Unnamed(eps) ==
    [k \in DOMAIN eps |->
        [eps[k] EXCEPT !.vars = [j \in DOMAIN @ |-> [@[j] EXCEPT !.name = None]]]]

\* C29: a module without OpName and OpMemberName has its decorations,
\* types, constants, variables and function bodies ingested: reflect()
\* yields the variables, with absent names, of the same module with its
\* debug names.
C29_NamelessModuleReflected ==
    phase = "done" /\ HasNoName(stream) =>
        LET named == reflect(1, WithNames(stream), cfg)
        IN  named.err = "OK" => entry_points = Unnamed(named.entry_points)

\* What reflect() does of a module without a name: nothing after the
\* execution modes is ingested, and no entry point has a variable.
NamelessModuleSkipped ==
    HasNoName(stream) =>
        /\ phase \in {"start", "entry_points", "execution_modes", "skip_names", "done"}
        /\ itm.deco_map = EmptyMap /\ itm.ty_map = EmptyMap
        /\ itm.vars = << >> /\ itm.func_map = EmptyMap
        /\ \A k \in DOMAIN entry_points : entry_points[k].vars = << >>

\* The whole module with its names yields the storage image.
NamedModuleDone ==
    /\ phase = "done"
    /\ stream = NamesModule
    /\ Len(entry_points) = 1
    /\ Len(entry_points[1].vars) = 1
    /\ entry_points[1].vars[1].name = Some("img")

(***************************************************************************)
(* Specification SpecVarMap: streams of OpVariable instructions over four  *)
(* variable ids, repeated or not, three of them with a Location, with a    *)
(* registered or an unregistered pointee and three storage classes.        *)
(***************************************************************************)
\* Number of OpVariable instructions of a module.
MaxMapVars == 3

\* %203 has no Location, and %99 is the id of no type.
VarMapHead ==
    <<OpEntryPoint("Vertex", 1, "main"),
      OpName(200, "a"), OpName(201, "b"),
      OpDecorate(200, "Location", <<0>>),
      OpDecorate(201, "Location", <<1>>),
      OpDecorate(202, "Location", <<2>>),
      OpTypeFloat(2, 32),
      OpTypePointer(102, 2), OpTypePointer(199, 99)>>

VarMapInstrs ==
    {OpVariable(ty_id, var_id, store_cls) :
        ty_id \in {102, 199}, var_id \in {200, 201, 202, 203},
        store_cls \in {"Input", "Output", "Private"}}

InitVarMap ==
    InDefs(VarMapHead, [ReflectConfigDefault EXCEPT !.ref_all_rscs = TRUE])

NextVarMapInstr ==
    /\ Len(stream) < MaxMapVars
    /\ \E op \in VarMapInstrs : ReadInstr(op)

NextVarMap == NextVarMapInstr \/ CollectEntryPoints

SpecVarMap == InitVarMap /\ [][NextVarMap]_vars

\* C30: after any sequence of successfully ingested OpVariable
\* instructions the variable map is an injective map from variable ids
\* onto the indices 0 .. len(vars)-1 of the list of variables: get_var
\* never indexes out of bounds, and every entry of the list belongs to
\* exactly one variable id, whose variable it is.
C30_VarMapOntoIndices ==
    /\ \A id \in DOMAIN itm.var_map :
          /\ itm.var_map[id] \in 0 .. Len(itm.vars) - 1
          /\ get_var(itm, id).val.location
                = InterfaceLocation(itm.deco_map[<<id, None, "Location">>][1], 0)
    /\ \A a \in DOMAIN itm.var_map, b \in DOMAIN itm.var_map :
          a # b => itm.var_map[a] # itm.var_map[b]
    /\ \A k \in 0 .. Len(itm.vars) - 1 :
          \E id \in DOMAIN itm.var_map : itm.var_map[id] = k

\* %202 and %200 are registered in this order, and %203 was skipped.
C30_Witness ==
    /\ phase = "defs"
    /\ Len(stream) = 3
    /\ Len(itm.vars) = 2
    /\ DOMAIN itm.var_map = {200, 202}
    /\ itm.var_map[202] = 0 /\ itm.var_map[200] = 1
    /\ \E k \in DOMAIN stream : stream[k].var_id = 203
====
